---- MODULE Spec2Model ----
(***************************************************************************)
(* Peer/channel control plane of lightningd (peer_control.c): the close    *)
(* coordinator, drop_to_chain, the reconnect dispatch and the RPC handlers *)
(* that drive them.  The whole of struct lightningd that these handlers    *)
(* touch is one record, ld; every handler is an operator from ld to ld, so *)
(* that a handler calling another is function composition, and an action   *)
(* is one handler run to completion on the single-threaded main loop.      *)
(***************************************************************************)
EXTENDS Integers, Sequences, FiniteSets, TLC

VARIABLES ld

vars == <<ld>>

(* ------------------------------ bounds --------------------------------- *)
\* number of close commands ever registered
MaxCmds == 2
\* number of distinct transaction bodies a channel's last_tx can take
MaxTx == 2

Cmds == 1..MaxCmds
TxBodies == 1..MaxTx

NULL == "NULL"

Peers == {"p1", "p2"}
\* the peers whose connections (and so whose workers) are followed; the other
\* peer stays disconnected and its channel is driven by RPC and timers only
ConnectingPeers == {"p1"}
Chans == {"c1", "c2"}

\* channel->peer: every channel record hangs off one peer
ChanPeer(c) == IF c = "c1" THEN "p1" ELSE "p2"

\* channel->funding_txid / channel->funding_outnum (fixed at funding time)
FundingTxid(c) == IF c = "c1" THEN "ftx1" ELSE "ftx2"
FundingOutnum(c) == IF c = "c1" THEN 0 ELSE 1

(* --------------------------- channel states ---------------------------- *)
ActiveStates == {"CHANNELD_AWAITING_LOCKIN", "CHANNELD_NORMAL",
                 "CHANNELD_SHUTTING_DOWN", "CLOSINGD_SIGEXCHANGE",
                 "AWAITING_UNILATERAL"}
ChannelStates == ActiveStates \cup {"CLOSINGD_COMPLETE", "FUNDING_SPEND_SEEN", "ONCHAIN"}

\* states a channel can be loaded in from the database at startup
InitStates == {"CHANNELD_AWAITING_LOCKIN", "CHANNELD_NORMAL", "AWAITING_UNILATERAL"}

channel_active(ch) == ch.state \in ActiveStates

\* the first (here: only) channel of the peer that is alive and active
peer_active_channel(s, p) ==
    LET cs == {c \in Chans : ChanPeer(c) = p /\ s.channels[c].alive
                              /\ channel_active(s.channels[c])}
    IN IF cs = {} THEN NULL ELSE CHOOSE c \in cs : TRUE

(* ----------------------------- transactions ---------------------------- *)
NoTx == [body |-> <<NULL, 0>>, witness |-> NULL]

\* bitcoin_txid: the hash covers the body only, never the witness
bitcoin_txid(tx) == <<"txid", tx.body>>

derive_channel_id(txid, outnum) == <<"channel_id", txid, outnum>>

\* towire_errorfmt(ctx, NULL, ...) addresses all channels
AllChannels == <<"channel_id", "all", 0>>

\* channel->error and the send_msg of a worker: an error message, or none
NoError == [set |-> FALSE, channel_id |-> AllChannels, data |-> NULL]

towire_errorfmt(cid, text) == [set |-> TRUE, channel_id |-> cid, data |-> text]

(* ------------------- the trace of the running handler ------------------ *)
\* What the handler that ran last did to its collaborators: requests to the
\* HSM, wallet inserts, broadcasts, log lines, workers started, messages to
\* workers, the drop_to_chain and channel_fail_permanent calls made, the
\* commands completed (in order, with what they returned), the channels that
\* tal_del_destructor2 was called on and the reply of an RPC that is not a
\* close.
NoOut == [op |-> "init", chan |-> NULL, cmd |-> 0, arg |-> NULL, peer |-> NULL,
          peer_errors |-> <<>>,
          hsm |-> <<>>, wallet |-> <<>>, bcast |-> <<>>, logs |-> <<>>,
          workers |-> <<>>, subd_msgs |-> <<>>, dtc |-> <<>>,
          fail_perm |-> <<>>, completed |-> <<>>, del_destructor2 |-> <<>>,
          channeltxs |-> <<>>,
          reply |-> [kind |-> "none", msg |-> NULL, tx |-> NoTx]]

\* A handler starts with an empty trace.
begin(s, op, c, k) ==
    [s EXCEPT !.out = [NoOut EXCEPT !.op = op, !.chan = c, !.cmd = k]]

\* a failed assertion, abort() or fatal(): the handler goes no further
abort_(s, why) == IF s.aborted # NULL THEN s ELSE [s EXCEPT !.aborted = why]

log_(s, c, level, msg) ==
    [s EXCEPT !.out.logs = Append(@, [chan |-> c, level |-> level, msg |-> msg])]

SeqRemove(seq, x) == SelectSeq(seq, LAMBDA e : e # x)

(* ------------------------- commands (jsonrpc) -------------------------- *)
NoResult == [tx |-> NoTx, txid |-> bitcoin_txid(NoTx), type |-> NULL]

\* ndone: how many times the command has been completed
FreeCmd == [status |-> "free", ndone |-> 0]

NoCc == [alive |-> FALSE, channel |-> NULL, force |-> FALSE]

\* destroy_close_command without its list_del
destroy_close_command_no_list_del(s, k) ==
    LET c == s.cc[k].channel
    IN IF c = NULL THEN s
       ELSE [s EXCEPT !.destructors[c] = SeqRemove(@, k),
                      !.out.del_destructor2 = Append(@, [cmd |-> k, chan |-> c])]

\* destroy_close_command: the destructor of the close_command record
destroy_close_command(s, k) ==
    LET s1 == [s EXCEPT !.close_commands = SeqRemove(@, k)]
        c == s.cc[k].channel
    IN IF c = NULL THEN s1
       ELSE [s1 EXCEPT !.destructors[c] = SeqRemove(@, k),
                       !.out.del_destructor2 = Append(@, [cmd |-> k, chan |-> c])]

\* tal_free(cmd): the close_command is a child of the command and its timer
\* a child of the close_command, so both go with it
tal_free_cmd(s, k) ==
    IF s.cc[k].alive
    THEN LET s1 == destroy_close_command(s, k)
         IN [s1 EXCEPT !.cc[k] = NoCc, !.timers = @ \ {k}]
    ELSE s

\* command_success / command_fail complete the command and free it
command_complete(s, k, kind, msg, result) ==
    tal_free_cmd([s EXCEPT !.cmd[k].status = kind,
                           !.cmd[k].ndone = @ + 1,
                           !.out.completed = Append(@, [cmd |-> k, kind |-> kind,
                                                        msg |-> msg,
                                                        result |-> result])], k)

command_success(s, k, result) == command_complete(s, k, "success", NULL, result)

command_fail(s, k, msg) == command_complete(s, k, "failed", msg, NoResult)

(* -------------------------- close coordinator -------------------------- *)
\* resolve_one_close_command with the two type strings swapped
resolve_one_close_command_swapped(s, k, cooperative) ==
    LET tx == s.channels[s.cc[k].channel].last_tx
    IN command_success(s, k, [tx |-> tx, txid |-> bitcoin_txid(tx),
                              type |-> IF cooperative THEN "unilateral"
                                       ELSE "mutual"])

resolve_one_close_command(s, k, cooperative) ==
    LET tx == s.channels[s.cc[k].channel].last_tx
    IN command_success(s, k, [tx |-> tx, txid |-> bitcoin_txid(tx),
                              type |-> IF cooperative THEN "mutual"
                                       ELSE "unilateral"])

\* list_for_each_safe over ld->close_commands: the walk is over the list as
\* it was, each record removing only itself while it is visited
RECURSIVE resolve_walk(_, _, _, _)
resolve_walk(s, lst, c, cooperative) ==
    IF lst = <<>> THEN s
    ELSE LET k == Head(lst)
             s1 == IF s.cc[k].channel # c THEN s
                   ELSE resolve_one_close_command(s, k, cooperative)
         IN resolve_walk(s1, Tail(lst), c, cooperative)

\* resolve_close_command leaving the loop after the first match
resolve_close_command_first(s, c, cooperative) ==
    LET ks == SelectSeq(s.close_commands, LAMBDA k : s.cc[k].channel = c)
    IN IF ks = <<>> THEN s
       ELSE resolve_one_close_command(s, Head(ks), cooperative)

resolve_close_command(s, c, cooperative) ==
    resolve_walk(s, s.close_commands, c, cooperative)

\* destroy_close_command_on_channel_destroy that leaves cc->channel set
destroy_close_command_on_channel_destroy_no_clear(s, k) ==
    command_fail(s, k, "Channel forgotten before proper close.")

destroy_close_command_on_channel_destroy(s, k) ==
    command_fail([s EXCEPT !.cc[k].channel = NULL], k,
                 "Channel forgotten before proper close.")

register_close_command(s, k, c, force) ==
    [s EXCEPT !.close_commands = Append(@, k),
              !.cc[k] = [alive |-> TRUE, channel |-> c, force |-> force],
              !.destructors[c] = Append(@, k),
              !.timers = @ \cup {k}]

(* ----------------------------- drop_to_chain --------------------------- *)
sign_last_tx(s, c) ==
    IF s.channels[c].last_tx.witness # NULL
    THEN abort_(s, "assert(!last_tx->wtx->inputs[0].witness)")
    ELSE [s EXCEPT !.out.hsm = Append(@, [chan |-> c,
                                          tx |-> s.channels[c].last_tx]),
                   !.channels[c].last_tx.witness = "2of2"]

remove_sig(s, c) == [s EXCEPT !.channels[c].last_tx.witness = NULL]

wallet_transaction_add(s, tx) ==
    [s EXCEPT !.out.wallet = Append(@, tx)]

broadcast_tx(s, c, tx) ==
    [s EXCEPT !.out.bcast = Append(@, [chan |-> c, tx |-> tx])]

dtc_enter(s, c, cooperative) ==
    [s EXCEPT !.out.dtc = Append(@, [chan |-> c, cooperative |-> cooperative,
                                     future |-> s.channels[c].future_per_commitment_point,
                                     last_tx |-> s.channels[c].last_tx])]

dtc_broadcast(s, c) ==
    LET a == sign_last_tx(s, c)
        b == wallet_transaction_add(a, a.channels[c].last_tx)
    IN broadcast_tx(b, c, b.channels[c].last_tx)

\* drop_to_chain without the future_per_commitment_point test
drop_to_chain_no_future_test(s, c, cooperative) ==
    resolve_close_command(remove_sig(dtc_broadcast(dtc_enter(s, c, cooperative), c), c),
                          c, cooperative)

\* drop_to_chain without remove_sig
drop_to_chain_no_remove_sig(s, c, cooperative) ==
    LET s0 == dtc_enter(s, c, cooperative)
        s1 == IF s.channels[c].future_per_commitment_point /\ ~cooperative
              THEN log_(s0, c, "broken",
                        "Cannot broadcast our commitment tx: they have a future one")
              ELSE dtc_broadcast(s0, c)
    IN resolve_close_command(s1, c, cooperative)

\* drop_to_chain returning from the future_per_commitment_point branch
drop_to_chain_early_return(s, c, cooperative) ==
    LET s0 == dtc_enter(s, c, cooperative)
    IN IF s.channels[c].future_per_commitment_point /\ ~cooperative
       THEN log_(s0, c, "broken",
                 "Cannot broadcast our commitment tx: they have a future one")
       ELSE resolve_close_command(remove_sig(dtc_broadcast(s0, c), c), c, cooperative)

drop_to_chain(s, c, cooperative) ==
    LET ch == s.channels[c]
        s0 == dtc_enter(s, c, cooperative)
        s1 == IF ch.future_per_commitment_point /\ ~cooperative
              THEN log_(s0, c, "broken",
                        "Cannot broadcast our commitment tx: they have a future one")
              ELSE remove_sig(dtc_broadcast(s0, c), c)
    IN resolve_close_command(s1, c, cooperative)

(* ------------------------------- peers --------------------------------- *)
\* pending: the plugin has the hook call and has not answered yet;
\* freed: the payload's memory has been released
NoPayload == [pending |-> FALSE, channel |-> NULL, freed |-> FALSE]

\* a hook call in flight keeps the address of its payload and its reply
\* runs the callback on it, whatever has become of the payload meanwhile
plugin_hook_payload_freed(pl) == [pl EXCEPT !.freed = pl.pending]

\* tal_free(peer): the hook payload was stolen onto the peer and goes with it
peer_has_channels(s, p) == \E c \in Chans : ChanPeer(c) = p /\ s.channels[c].alive

delete_peer(s, p) ==
    LET s1 == IF s.peers[p].dbid # 0
              THEN [s EXCEPT !.db_peers = @ \ {s.peers[p].dbid}]
              ELSE s
    IN IF peer_has_channels(s, p)
       THEN abort_(s, "assert(list_empty(&peer->channels))")
       ELSE IF s.peers[p].uncommitted_channel
       THEN abort_(s, "assert(!peer->uncommitted_channel)")
       ELSE [s1 EXCEPT !.peers[p] = [exists |-> FALSE, dbid |-> 0,
                                     uncommitted_channel |-> FALSE],
                       !.payload[p] = plugin_hook_payload_freed(s.payload[p])]

\* maybe_delete_peer that does not look at the uncommitted channel
maybe_delete_peer_ignores_uncommitted(s, p) ==
    IF peer_has_channels(s, p) THEN s
    ELSE delete_peer(s, p)

maybe_delete_peer(s, p) ==
    IF peer_has_channels(s, p) THEN s
    ELSE IF s.peers[p].uncommitted_channel
         THEN IF s.peers[p].dbid # 0
              THEN [s EXCEPT !.db_peers = @ \ {s.peers[p].dbid},
                             !.peers[p].dbid = 0]
              ELSE s
         ELSE delete_peer(s, p)

new_peer(s, p) ==
    [s EXCEPT !.peers[p] = [exists |-> TRUE, dbid |-> 0,
                            uncommitted_channel |-> FALSE]]

kill_uncommitted_channel(s, p) ==
    maybe_delete_peer([s EXCEPT !.peers[p].uncommitted_channel = FALSE], p)

(* ----------------------- channel failure (channel.c) ------------------- *)
channel_set_owner(s, c, owner) == [s EXCEPT !.channels[c].owner = owner]

channel_fail_transient(s, c, why) ==
    channel_set_owner(log_(s, c, "info", why), c, NULL)

channel_fail_permanent(s, c, why) ==
    IF c = NULL THEN abort_(s, "NULL channel")
    ELSE
    LET s1 == [s EXCEPT !.out.fail_perm = Append(@, [chan |-> c, why |-> why])]
        s2 == IF ~s1.channels[c].error.set
              THEN [s1 EXCEPT !.channels[c].error =
                        towire_errorfmt(derive_channel_id(FundingTxid(c),
                                                          FundingOutnum(c)), why)]
              ELSE s1
        s3 == drop_to_chain(channel_set_owner(s2, c, NULL), c, FALSE)
    IN IF channel_active(s3.channels[c])
       THEN [s3 EXCEPT !.channels[c].state = "AWAITING_UNILATERAL"]
       ELSE s3

\* tal_free(channel) runs the destructors registered on it, then the peer
\* is dropped if this was its last channel
RECURSIVE run_channel_destructors(_, _)
run_channel_destructors(s, ks) ==
    IF ks = <<>> THEN s
    ELSE run_channel_destructors(
             destroy_close_command_on_channel_destroy(s, Head(ks)), Tail(ks))

delete_channel(s, c) ==
    LET s1 == run_channel_destructors(s, s.destructors[c])
        s2 == [s1 EXCEPT !.channels[c].alive = FALSE,
                         !.channels[c].owner = NULL,
                         !.destructors[c] = <<>>]
    IN maybe_delete_peer(s2, ChanPeer(c))

(* ------------------------------ timeout -------------------------------- *)
\* close_command_timeout whose else branch does not fail the command
close_command_timeout_no_fail(s, k) ==
    IF s.cc[k].force
    THEN channel_fail_permanent(s, s.cc[k].channel,
                                "Forcibly closed by 'close' command timeout")
    ELSE s

\* close_command_timeout that never looks at force
close_command_timeout_no_force(s, k) ==
    command_fail(s, k, "Channel close negotiation not finished before timeout")

\* close_command_timeout that forces whatever force says
close_command_timeout_always_force(s, k) ==
    channel_fail_permanent(s, s.cc[k].channel,
                           "Forcibly closed by 'close' command timeout")

close_command_timeout(s, k) ==
    IF s.cc[k].force
    THEN channel_fail_permanent(s, s.cc[k].channel,
                                "Forcibly closed by 'close' command timeout")
    ELSE command_fail(s, k,
                      "Channel close negotiation not finished before timeout")

(* --------------------------- worker startup ---------------------------- *)
start_worker(s, name, p, c, reconnect, send_msg) ==
    [s EXCEPT !.out.workers = Append(@, [name |-> name, peer |-> p, chan |-> c,
                                         reconnect |-> reconnect,
                                         send_msg |-> send_msg])]

peer_start_channeld(s, c, reconnect) ==
    channel_set_owner(start_worker(s, "lightning_channeld", ChanPeer(c), c,
                                   reconnect, NoError),
                      c, "lightning_channeld")

peer_start_closingd(s, c, reconnect) ==
    channel_set_owner(start_worker(s, "lightning_closingd", ChanPeer(c), c,
                                   reconnect, NoError),
                      c, "lightning_closingd")

\* the opening worker takes the connection and first sends send_msg, if any
peer_start_openingd(s, p, send_msg) ==
    IF s.peers[p].uncommitted_channel
    THEN abort_(s, "assert(!peer->uncommitted_channel)")
    ELSE LET s1 == start_worker(s, "lightning_openingd", p, NULL, FALSE, send_msg)
             s2 == IF send_msg.set
                   THEN [s1 EXCEPT !.out.peer_errors = Append(@, send_msg)]
                   ELSE s1
         IN [s2 EXCEPT !.peers[p].uncommitted_channel = TRUE]

(* ------------------------- reconnect dispatch -------------------------- *)
Verdicts == {"continue", "disconnect", "disconnect_msg", "invalid"}

\* the error for a channel in AWAITING_UNILATERAL, without its channel id
awaiting_unilateral_error_no_cid(c) ==
    towire_errorfmt(AllChannels, "Awaiting unilateral close")

\* the error for a channel in AWAITING_UNILATERAL
awaiting_unilateral_error(c) ==
    towire_errorfmt(derive_channel_id(FundingTxid(c), FundingOutnum(c)),
                    "Awaiting unilateral close")

\* what the plugin's reply asks for; verdict "nohook": no plugin registered
\* the hook (buffer == NULL)
interpret_result_ignore_disconnect(verdict) ==
    IF verdict \in {"nohook", "continue", "disconnect"} THEN "proceed"
    ELSE IF verdict = "disconnect_msg" THEN "send_error"
    ELSE "fatal"

interpret_result(verdict) ==
    IF verdict \in {"nohook", "continue"} THEN "proceed"
    ELSE IF verdict = "disconnect_msg" THEN "send_error"
    ELSE IF verdict = "disconnect" THEN "drop"
    ELSE "fatal"

\* the canned error replaced by a fresh one for the channel
canned_error_rewritten(ch) ==
    towire_errorfmt(ch.error.channel_id, "Awaiting unilateral close")

\* error = channel->error
canned_error(ch) == ch.error

\* the switch on channel->state with the closing case given to channeld
dispatch_by_state_all_channeld(s, p, c) ==
    LET ch == s.channels[c] IN
    IF ch.state \in {"ONCHAIN", "FUNDING_SPEND_SEEN", "CLOSINGD_COMPLETE"}
    THEN abort_(s, "abort: channel not active")
    ELSE IF ch.state = "AWAITING_UNILATERAL"
    THEN peer_start_openingd(s, p, awaiting_unilateral_error(c))
    ELSE IF ch.owner # NULL THEN abort_(s, "assert(!channel->owner)")
    ELSE peer_start_channeld(s, c, TRUE)

\* the switch on channel->state
dispatch_by_state(s, p, c) ==
    LET ch == s.channels[c] IN
    IF ch.state \in {"ONCHAIN", "FUNDING_SPEND_SEEN", "CLOSINGD_COMPLETE"}
    THEN abort_(s, "abort: channel not active")
    ELSE IF ch.state = "AWAITING_UNILATERAL"
    THEN peer_start_openingd(s, p, awaiting_unilateral_error(c))
    ELSE IF ch.state \in {"CHANNELD_AWAITING_LOCKIN", "CHANNELD_NORMAL",
                          "CHANNELD_SHUTTING_DOWN"}
    THEN IF ch.owner # NULL THEN abort_(s, "assert(!channel->owner)")
         ELSE peer_start_channeld(s, c, TRUE)
    ELSE IF ch.state = "CLOSINGD_SIGEXCHANGE"
    THEN IF ch.owner # NULL THEN abort_(s, "assert(!channel->owner)")
         ELSE peer_start_closingd(s, c, TRUE)
    ELSE abort_(s, "abort: unknown state")

\* What a handler that is handed freed memory can do: fault on it, read a
\* channel state that was never stored there, or go unnoticed.
UafOutcomes == {"segv", "garbage", "unnoticed"}

\* the callback on a payload freed with its peer: every load through payload
\* is a use after free
use_after_free(s, p, result, uaf) ==
    IF uaf = "garbage" /\ result = "proceed"
    THEN abort_(s, "abort: channel not active")
    ELSE IF uaf = "unnoticed" THEN [s EXCEPT !.payload[p] = NoPayload]
    ELSE abort_(s, "use after free")

peer_connected_hook_cb(s, p, verdict, uaf) ==
    LET c == s.payload[p].channel
        s0 == [s EXCEPT !.payload[p] = NoPayload]
        result == interpret_result(verdict)
    IN
    IF s.payload[p].freed THEN use_after_free(s, p, result, uaf)
    ELSE IF result = "fatal" THEN abort_(s, "fatal: invalid hook response")
    ELSE IF result = "send_error"
    THEN peer_start_openingd(s0, p, towire_errorfmt(AllChannels, "plugin error_message"))
    ELSE IF result = "drop" THEN s0
    ELSE IF c # NULL
    THEN IF s0.channels[c].error.set
         THEN peer_start_openingd(s0, p, canned_error(s0.channels[c]))
         ELSE dispatch_by_state(s0, p, c)
    ELSE peer_start_openingd(s0, p, NoError)

\* peer_connected that calls the hook and goes on to the dispatch itself
peer_connected_dispatches_while_hooked(s, p, hooked) ==
    LET s1 == IF s.peers[p].exists THEN s ELSE new_peer(s, p)
        s2 == IF s1.peers[p].uncommitted_channel
              THEN abort_(s1, "assert(!peer->uncommitted_channel)")
              ELSE [s1 EXCEPT !.payload[p] = [pending |-> TRUE,
                                              channel |-> peer_active_channel(s1, p),
                                              freed |-> FALSE]]
        s3 == IF s2.aborted # NULL THEN s2
              ELSE peer_connected_hook_cb(s2, p, "nohook", "unnoticed")
    IN IF hooked /\ s3.aborted = NULL
       THEN [s3 EXCEPT !.payload[p] = s2.payload[p]]
       ELSE s3

peer_connected(s, p, hooked) ==
    LET s1 == IF s.peers[p].exists THEN s ELSE new_peer(s, p)
        s2 == IF s1.peers[p].uncommitted_channel
              THEN abort_(s1, "assert(!peer->uncommitted_channel)")
              ELSE [s1 EXCEPT !.payload[p] = [pending |-> TRUE,
                                              channel |-> peer_active_channel(s1, p),
                                              freed |-> FALSE]]
    IN IF hooked \/ s2.aborted # NULL THEN s2
       ELSE peer_connected_hook_cb(s2, p, "nohook", "unnoticed")

(* ------------------------------ channel_errmsg ------------------------- *)
\* channel_errmsg that takes every report for a protocol error
channel_errmsg_always_permanent(s, c, pps, err_for_them) ==
    LET s1 == IF err_for_them.set /\ ~s.channels[c].error.set
              THEN [s EXCEPT !.channels[c].error = err_for_them]
              ELSE s
    IN channel_fail_permanent(s1, c,
           IF err_for_them.set THEN "owner: sent ERROR desc"
           ELSE "owner: received ERROR desc")

channel_errmsg(s, c, pps, err_for_them) ==
    IF ~pps THEN channel_fail_transient(s, c, "owner: desc")
    ELSE LET s1 == IF err_for_them.set /\ ~s.channels[c].error.set
                   THEN [s EXCEPT !.channels[c].error = err_for_them]
                   ELSE s
         IN channel_fail_permanent(s1, c,
                IF err_for_them.set THEN "owner: sent ERROR desc"
                ELSE "owner: received ERROR desc")

(* --------------------------------- RPC --------------------------------- *)
Reply(kind, msg, tx) == [kind |-> kind, msg |-> msg, tx |-> tx]

channel_state_name(ch) == ch.state

\* a command that completed inside its own handler never pends: its object
\* is gone when the handler returns (the completion stays in out.completed)
returned(s, k) == [s EXCEPT !.cmd[k] = FreeCmd]

\* close on a peer without an active channel, leaving its uncommitted
\* channel alone
close_without_channel_keep_uc(s, k, p) ==
    IF s.peers[p].uncommitted_channel
    THEN returned(command_success(s, k, NoResult), k)
    ELSE returned(command_fail(s, k, "Peer has no active channel"), k)

\* close on a peer without an active channel
close_without_channel(s, k, p) ==
    IF s.peers[p].uncommitted_channel
    THEN returned(command_success(kill_uncommitted_channel(s, p), k, NoResult), k)
    ELSE returned(command_fail(s, k, "Peer has no active channel"), k)

\* the state test that lets AWAITING_UNILATERAL through
close_allowed_in_any_active(ch) == channel_active(ch)

\* the states close accepts
close_allowed_in(ch) ==
    ch.state \in {"CHANNELD_NORMAL", "CHANNELD_AWAITING_LOCKIN",
                  "CHANNELD_SHUTTING_DOWN", "CLOSINGD_SIGEXCHANGE"}

\* the move to CHANNELD_SHUTTING_DOWN without the message to the worker
begin_shutdown_no_send(s, c) ==
    IF s.channels[c].state \in {"CHANNELD_NORMAL", "CHANNELD_AWAITING_LOCKIN"}
    THEN [s EXCEPT !.channels[c].state = "CHANNELD_SHUTTING_DOWN"]
    ELSE s

\* from normal or locking in, move to shutting down and tell the worker, if
\* there is one
begin_shutdown(s, c) ==
    LET ch == s.channels[c] IN
    IF ch.state \in {"CHANNELD_NORMAL", "CHANNELD_AWAITING_LOCKIN"}
    THEN LET t == [s EXCEPT !.channels[c].state = "CHANNELD_SHUTTING_DOWN"]
         IN IF ch.owner # NULL
            THEN [t EXCEPT !.out.subd_msgs =
                      Append(@, [chan |-> c, msg |-> "channel_send_shutdown"])]
            ELSE t
    ELSE s

\* close with id a peer id; k is the command object the RPC layer made
json_close(s, k, p, force) ==
    IF ~s.peers[p].exists
    THEN returned(command_fail(s, k,
                      "Given id is not a channel ID or short channel ID"), k)
    ELSE
    LET c == peer_active_channel(s, p) IN
    IF c = NULL THEN close_without_channel(s, k, p)
    ELSE IF ~close_allowed_in(s.channels[c])
    THEN returned(command_fail(s, k, "Channel is in state "
                                     \o channel_state_name(s.channels[c])), k)
    ELSE
    LET s2 == register_close_command(begin_shutdown(s, c), k, c, force)
    IN [s2 EXCEPT !.cmd[k].status = "pending"]

\* disconnect: the command completes inside its handler
\* json_disconnect that tears the worker down whatever force says
json_disconnect_force_ignored(s, p, force) ==
    IF ~s.peers[p].exists
    THEN [s EXCEPT !.out.reply = Reply("fail", "Peer not connected", NoTx)]
    ELSE
    LET c == peer_active_channel(s, p) IN
    IF c # NULL
    THEN [channel_fail_transient(s, c, "disconnect command force=true")
             EXCEPT !.out.reply = Reply("success", NULL, NoTx)]
    ELSE IF ~s.peers[p].uncommitted_channel
    THEN [s EXCEPT !.out.reply = Reply("fail", "Peer not connected", NoTx)]
    ELSE [kill_uncommitted_channel(s, p)
             EXCEPT !.out.reply = Reply("success", NULL, NoTx)]

json_disconnect(s, p, force) ==
    IF ~s.peers[p].exists
    THEN [s EXCEPT !.out.reply = Reply("fail", "Peer not connected", NoTx)]
    ELSE
    LET c == peer_active_channel(s, p) IN
    IF c # NULL
    THEN IF force
         THEN [channel_fail_transient(s, c, "disconnect command force=true")
                  EXCEPT !.out.reply = Reply("success", NULL, NoTx)]
         ELSE [s EXCEPT !.out.reply =
                   Reply("fail", "Peer is in state "
                                 \o channel_state_name(s.channels[c]), NoTx)]
    ELSE IF ~s.peers[p].uncommitted_channel
    THEN [s EXCEPT !.out.reply = Reply("fail", "Peer not connected", NoTx)]
    ELSE [kill_uncommitted_channel(s, p)
             EXCEPT !.out.reply = Reply("success", NULL, NoTx)]

json_sign_last_tx(s, p) ==
    IF ~s.peers[p].exists
    THEN [s EXCEPT !.out.reply = Reply("fail", "Could not find peer with that id", NoTx)]
    ELSE LET c == peer_active_channel(s, p) IN
         IF c = NULL
         THEN [s EXCEPT !.out.reply = Reply("fail", "Could not find active channel", NoTx)]
         ELSE LET s1 == sign_last_tx(s, c)
                  s2 == [s1 EXCEPT !.out.reply = Reply("success", NULL,
                                                        s1.channels[c].last_tx)]
              IN remove_sig(s2, c)

\* the gettxout reply of dev-forget-channel: forget the channel unless its
\* funding output is unspent and force was not given
process_dev_forget_channel(s, c, unspent, force) ==
    IF unspent /\ ~force
    THEN [s EXCEPT !.out.reply = Reply("fail", "Cowardly refusing to forget channel", NoTx)]
    ELSE LET s1 == [s EXCEPT !.channels[c].error =
                               towire_errorfmt(AllChannels, "dev_forget_channel")]
             s2 == delete_channel(s1, c)
         IN [s2 EXCEPT !.out.reply = Reply("success", NULL, NoTx)]

(* ------------------- worker reports (closing / channel) ---------------- *)
\* channel worker: funding locked in
lockin_complete(s, c) == [s EXCEPT !.channels[c].state = "CHANNELD_NORMAL"]

\* channel worker: shutdown exchanged, hand the connection to a closing worker
peer_start_closingd_after_shutdown(s, c) ==
    peer_start_closingd([s EXCEPT !.channels[c].state = "CLOSINGD_SIGEXCHANGE"],
                        c, FALSE)

\* closing worker: a new mutual close transaction was signed by the peer
peer_received_closing_signature(s, c, n) ==
    [s EXCEPT !.channels[c].last_tx = [body |-> <<c, n>>, witness |-> NULL]]

\* closing worker: negotiation finished
peer_closing_complete(s, c) ==
    IF s.channels[c].state # "CLOSINGD_SIGEXCHANGE" THEN s
    ELSE [drop_to_chain(s, c, TRUE) EXCEPT !.channels[c].state = "CLOSINGD_COMPLETE"]

(* ----------------------------- funding watch --------------------------- *)
\* the on-chain resolver takes the channel over: whatever state it was in,
\* it is failed for good first
onchaind_funding_spent(s, c) ==
    LET s1 == channel_fail_permanent(s, c, "Funding transaction spent")
        s2 == [s1 EXCEPT !.channels[c].state = "FUNDING_SPEND_SEEN"]
    IN channel_set_owner(start_worker(s2, "lightning_onchaind", NULL, c,
                                      FALSE, NoError),
                         c, "lightning_onchaind")

wallet_channeltxs_add(s, c, type) ==
    [s EXCEPT !.out.channeltxs = Append(@, [chan |-> c, type |-> type])]

funding_spent(s, c) ==
    onchaind_funding_spent(wallet_channeltxs_add(s, c, "WIRE_ONCHAIN_INIT"), c)

(* -------------------------------- Init --------------------------------- *)
PeerDbid(p) == IF p = "p1" THEN 1 ELSE 2

\* ld as load_channels_from_wallet leaves it at startup
InitLd(st, fut) ==
    [channels |-> [c \in Chans |->
                      [alive |-> TRUE, state |-> st[c], owner |-> NULL,
                       error |-> NoError,
                       future_per_commitment_point |-> fut[c],
                       last_tx |-> [body |-> <<c, 1>>, witness |-> NULL]]],
     peers |-> [p \in Peers |-> [exists |-> TRUE, dbid |-> PeerDbid(p),
                                 uncommitted_channel |-> FALSE]],
     db_peers |-> {PeerDbid(p) : p \in Peers},
     payload |-> [p \in Peers |-> NoPayload],
     close_commands |-> <<>>,
     cc |-> [k \in Cmds |-> NoCc],
     cmd |-> [k \in Cmds |-> FreeCmd],
     timers |-> {},
     destructors |-> [c \in Chans |-> <<>>],
     aborted |-> NULL,
     out |-> NoOut]

\* The channel of the peer that never connects is there for what another
\* channel's commands, timers and destruction must leave alone: it starts
\* usable or awaiting its unilateral close, with no future commitment point.
Init ==
    \E st \in [Chans -> InitStates], fut \in [Chans -> BOOLEAN] :
        /\ \A c \in Chans : ChanPeer(c) \notin ConnectingPeers
                               => /\ st[c] # "CHANNELD_AWAITING_LOCKIN"
                                  /\ ~fut[c]
        /\ ld = InitLd(st, fut)

(* ------------------------------- actions ------------------------------- *)
\* a failed assertion, abort() or fatal() ends the process
commit(s) ==
    ld' = IF s.aborted # NULL
          THEN [ld EXCEPT !.aborted = s.aborted,
                          !.out = [NoOut EXCEPT !.op = s.out.op, !.chan = s.out.chan,
                                                !.cmd = s.out.cmd, !.arg = s.out.arg,
                                                !.peer = s.out.peer]]
          ELSE s

NextCmd == Cardinality({k \in Cmds : ld.cmd[k].status # "free"}) + 1

JsonClose ==
    /\ ld.aborted = NULL
    /\ \E k \in Cmds, p \in Peers, force \in BOOLEAN :
        /\ k = NextCmd
        /\ commit(json_close(
                      [begin(ld, "close",
                             IF ld.peers[p].exists
                             THEN peer_active_channel(ld, p) ELSE NULL, k)
                          EXCEPT !.out.arg = p],
                      k, p, force))

\* the one-shot timer of close command k expires
TimerExpired ==
    /\ ld.aborted = NULL
    /\ \E k \in ld.timers :
        LET s0 == begin(ld, "close_command_timeout", ld.cc[k].channel, k)
            s1 == [s0 EXCEPT !.timers = @ \ {k}]
        IN commit(close_command_timeout(s1, k))

\* the workers that hold the connection to the peer
ConnectionOwners == {"lightning_channeld", "lightning_closingd"}

\* connectd holds a peer until we say it died: no connection arrives for a
\* peer that is with a worker or whose hook verdict is outstanding
PeerConnected ==
    /\ ld.aborted = NULL
    /\ \E p \in ConnectingPeers, hooked \in BOOLEAN :
        /\ ~ld.payload[p].pending
        /\ ~ld.peers[p].uncommitted_channel
        /\ \A c \in Chans : ChanPeer(c) = p /\ ld.channels[c].alive
                               => ld.channels[c].owner \notin ConnectionOwners
        /\ commit(peer_connected(
                      [begin(ld, "peer_connected",
                             IF ld.peers[p].exists
                             THEN peer_active_channel(ld, p) ELSE NULL, 0)
                          EXCEPT !.out.arg = IF hooked THEN "hooked" ELSE "nohook",
                                 !.out.peer = p],
                      p, hooked))

PeerConnectedHookCb ==
    /\ ld.aborted = NULL
    /\ \E p \in Peers, verdict \in Verdicts, uaf \in UafOutcomes :
        /\ ld.payload[p].pending
        /\ commit(peer_connected_hook_cb(
                      [begin(ld, "peer_connected_hook_cb", ld.payload[p].channel, 0)
                          EXCEPT !.out.arg = verdict, !.out.peer = p],
                      p, verdict, uaf))

ChannelErrmsg ==
    /\ ld.aborted = NULL
    /\ \E c \in Chans, pps \in BOOLEAN, has_err \in BOOLEAN :
        LET err == IF has_err
                   THEN towire_errorfmt(derive_channel_id(FundingTxid(c),
                                                          FundingOutnum(c)),
                                        "worker error")
                   ELSE NoError IN
        /\ ld.channels[c].alive
        /\ ld.channels[c].owner \in ConnectionOwners
        /\ commit(channel_errmsg(
                      [begin(ld, "channel_errmsg", c, 0)
                          EXCEPT !.out.arg = IF ~pps THEN "nopps"
                                             ELSE IF has_err THEN "pps"
                                             ELSE "pps_noerr"],
                      c, pps, err))

JsonSignLastTx ==
    /\ ld.aborted = NULL
    /\ \E p \in Peers :
        commit(json_sign_last_tx(begin(ld, "dev-sign-last-tx",
                                       IF ld.peers[p].exists
                                       THEN peer_active_channel(ld, p) ELSE NULL, 0), p))

JsonDisconnect ==
    /\ ld.aborted = NULL
    /\ \E p \in Peers, force \in BOOLEAN :
        commit(json_disconnect(
                   [begin(ld, "disconnect",
                          IF ld.peers[p].exists
                          THEN peer_active_channel(ld, p) ELSE NULL, 0)
                       EXCEPT !.out.arg = IF force THEN "force" ELSE "noforce",
                              !.out.peer = p],
                   p, force))

\* the chain watcher sees the funding output spent
FundingSpent ==
    /\ ld.aborted = NULL
    /\ \E c \in Chans :
        /\ ld.channels[c].alive
        /\ ld.channels[c].state \notin {"FUNDING_SPEND_SEEN", "ONCHAIN"}
        /\ commit(funding_spent(begin(ld, "funding_spent", c, 0), c))

ProcessDevForgetChannel ==
    /\ ld.aborted = NULL
    /\ \E c \in Chans, unspent \in BOOLEAN, force \in BOOLEAN :
        /\ ld.channels[c].alive
        /\ commit(process_dev_forget_channel(begin(ld, "dev-forget-channel", c, 0),
                                             c, unspent, force))

\* the opening worker exits without a channel: its uncommitted channel dies
OpeningdFailed ==
    /\ ld.aborted = NULL
    /\ \E p \in Peers :
        /\ ld.peers[p].exists
        /\ ld.peers[p].uncommitted_channel
        /\ commit(kill_uncommitted_channel(begin(ld, "opening_failed", NULL, 0), p))

LockinComplete ==
    /\ ld.aborted = NULL
    /\ \E c \in Chans :
        /\ ld.channels[c].alive
        /\ ld.channels[c].owner = "lightning_channeld"
        /\ ld.channels[c].state = "CHANNELD_AWAITING_LOCKIN"
        /\ commit(lockin_complete(begin(ld, "lockin_complete", c, 0), c))

ShutdownComplete ==
    /\ ld.aborted = NULL
    /\ \E c \in Chans :
        /\ ld.channels[c].alive
        /\ ld.channels[c].owner = "lightning_channeld"
        /\ ld.channels[c].state = "CHANNELD_SHUTTING_DOWN"
        /\ commit(peer_start_closingd_after_shutdown(
                      begin(ld, "shutdown_complete", c, 0), c))

ClosingSigReceived ==
    /\ ld.aborted = NULL
    /\ \E c \in Chans, n \in TxBodies :
        /\ ld.channels[c].alive
        /\ ld.channels[c].owner = "lightning_closingd"
        /\ commit(peer_received_closing_signature(
                      begin(ld, "closing_signature", c, 0), c, n))

ClosingComplete ==
    /\ ld.aborted = NULL
    /\ \E c \in Chans :
        /\ ld.channels[c].alive
        /\ ld.channels[c].owner = "lightning_closingd"
        /\ commit(peer_closing_complete(begin(ld, "closing_complete", c, 0), c))

Next ==
    \/ JsonClose
    \/ TimerExpired
    \/ PeerConnected
    \/ PeerConnectedHookCb
    \/ ChannelErrmsg
    \/ JsonSignLastTx
    \/ ProcessDevForgetChannel
    \/ OpeningdFailed
    \/ LockinComplete
    \/ ShutdownComplete
    \/ ClosingSigReceived
    \/ ClosingComplete

Spec == Init /\ [][Next]_vars

\* The life of a connection: the events that make, drop and replace the
\* worker of a channel, with the chain watcher's funding-spend event and the
\* disconnect command.  What only rewrites last_tx (a closing signature,
\* dev-sign-last-tx) is left to Spec.
ConnNext ==
    \/ JsonClose
    \/ TimerExpired
    \/ PeerConnected
    \/ PeerConnectedHookCb
    \/ ChannelErrmsg
    \/ JsonDisconnect
    \/ FundingSpent
    \/ ProcessDevForgetChannel
    \/ OpeningdFailed
    \/ LockinComplete
    \/ ShutdownComplete
    \/ ClosingComplete

ConnSpec == Init /\ [][ConnNext]_vars

TypeOK ==
    /\ \A c \in Chans : ld.channels[c].state \in ChannelStates
    /\ ld.timers \subseteq Cmds

(* ======================================================================= *)
(*                               Properties                                *)
(* ======================================================================= *)
Range(seq) == {seq[i] : i \in 1..Len(seq)}

\* the close commands pending on channel c in state s
PendingOn(s, c) == {k \in Cmds : s.cmd[k].status = "pending" /\ s.cc[k].channel = c}

Completed(k) == ld.cmd[k].status \in {"success", "failed"}

BrokenLog(c) ==
    \E l \in Range(ld.out.logs) : l.chan = c /\ l.level = "broken"

\* the handler that ran last was the timer of close command k
TimeoutRan == ld.out.op = "close_command_timeout"

(* C1: drop_to_chain(cooperative = false) on a channel whose               *)
(* future_per_commitment_point is set sends no signing request to the HSM, *)
(* adds nothing to the wallet and broadcasts nothing; it logs at broken    *)
(* severity.                                                               *)
C1_FutureNeverBroadcast ==
    \A e \in Range(ld.out.dtc) :
        (e.future /\ ~e.cooperative)
            => /\ ld.out.hsm = <<>>
               /\ ld.out.wallet = <<>>
               /\ ld.out.bcast = <<>>
               /\ BrokenLog(e.chan)

C1_Witness ==
    /\ ld.aborted = NULL
    /\ \E e \in Range(ld.out.dtc) : e.future /\ ~e.cooperative

(* C2: a close command is never completed twice, and once it is completed  *)
(* its record is out of ld->close_commands, its timer is gone and no       *)
(* channel holds a destroy callback for it.                                *)
C2_CompletedOnce ==
    \A k \in Cmds :
        /\ ld.cmd[k].ndone <= 1
        /\ ld.cmd[k].status = "pending" => ld.cmd[k].ndone = 0
        /\ Completed(k) =>
              /\ k \notin Range(ld.close_commands)
              /\ k \notin ld.timers
              /\ \A c \in Chans : k \notin Range(ld.destructors[c])
              /\ ~ld.cc[k].alive

C2_Witness ==
    \E k, j \in Cmds : ld.cmd[k].status = "success" /\ ld.cmd[j].status = "failed"

(* C3: when the timer of a close command has fired, the command has been   *)
(* completed exactly once by the end of that step, with force or without.  *)
C3_TimeoutCompletes ==
    TimeoutRan => /\ ld.aborted = NULL
                  /\ Completed(ld.out.cmd)
                  /\ ld.cmd[ld.out.cmd].ndone = 1

C3_Witness ==
    /\ TimeoutRan
    /\ ld.out.fail_perm # <<>>
    /\ ld.cmd[ld.out.cmd].status = "success"

(* C4: between handlers no channel's last_tx carries a witness, and the    *)
(* assertion at the start of sign_last_tx never fails.                     *)
C4_LastTxUnsigned ==
    /\ \A c \in Chans : ld.channels[c].last_tx.witness = NULL
    /\ ld.aborted # "assert(!last_tx->wtx->inputs[0].witness)"

\* dev-sign-last-tx signs on a channel that drop_to_chain signed before
C4_Witness ==
    /\ ld.out.op = "dev-sign-last-tx"
    /\ ld.out.hsm # <<>>
    /\ \E c \in Chans : /\ ld.out.chan = c
                        /\ ld.channels[c].state = "AWAITING_UNILATERAL"
                        /\ ld.channels[c].error.set
                        /\ ~ld.channels[c].future_per_commitment_point

\* step: the hook verdict "continue" arrives for a connection whose channel
\* c is in AWAITING_UNILATERAL and has no latched error
AwaitingUnilateralReconnect(c) ==
    /\ ld.payload[ChanPeer(c)].pending
    /\ ld.payload[ChanPeer(c)].channel = c
    /\ ld.channels[c].state = "AWAITING_UNILATERAL"
    /\ ~ld.channels[c].error.set
    /\ ld'.out.op = "peer_connected_hook_cb"
    /\ ld'.out.arg = "continue"
    /\ ld'.out.chan = c

AwaitingUnilateralErrorSent(c) ==
    /\ ld'.aborted = NULL
    /\ ld'.out.peer_errors =
          <<[set |-> TRUE,
             channel_id |-> derive_channel_id(FundingTxid(c), FundingOutnum(c)),
             data |-> "Awaiting unilateral close"]>>
    /\ ld'.channels[c].state = "AWAITING_UNILATERAL"

(* C5 as stated: on a continue verdict for a channel in AWAITING_UNILATERAL *)
(* with no latched error the peer is sent the error "Awaiting unilateral    *)
(* close" under the channel id of the funding outpoint, the state stays     *)
(* AWAITING_UNILATERAL, and no worker at all is spawned.                    *)
C5_NoWorkerAtAll ==
    [][\A c \in Chans :
          AwaitingUnilateralReconnect(c)
              => /\ AwaitingUnilateralErrorSent(c)
                 /\ ld'.out.workers = <<>>]_vars

(* C5 amended: ... the state stays AWAITING_UNILATERAL, no channel worker   *)
(* and no closing worker is spawned and the channel gets no owner; the      *)
(* error is handed to the one opening worker started for the connection.    *)
C5_ErrorViaOpeningd ==
    [][\A c \in Chans :
          AwaitingUnilateralReconnect(c)
              => /\ AwaitingUnilateralErrorSent(c)
                 /\ ld'.channels = ld.channels
                 /\ Len(ld'.out.workers) = 1
                 /\ ld'.out.workers[1].name = "lightning_openingd"
                 /\ ld'.out.workers[1].send_msg = ld'.out.peer_errors[1]]_vars

C5_Witness ==
    /\ ld.aborted = NULL
    /\ ld.out.op = "peer_connected_hook_cb"
    /\ ld.out.arg = "continue"
    /\ ld.out.chan \in Chans
    /\ ld.channels[ld.out.chan].state = "AWAITING_UNILATERAL"
    /\ ld.out.peer_errors # <<>>
    /\ ld.out.peer_errors[1].data = "Awaiting unilateral close"

\* the entries of the trace that complete command k
CompletionsOf(s, k) == {i \in 1..Len(s.out.completed) : s.out.completed[i].cmd = k}

ResolvedAs(s, k, type) ==
    /\ s.cmd[k].status = "success"
    /\ \E i \in CompletionsOf(s, k) : /\ s.out.completed[i].kind = "success"
                                      /\ s.out.completed[i].result.type = type

Untouched(k) ==
    /\ ld'.cmd[k] = ld.cmd[k]
    /\ ld'.cc[k] = ld.cc[k]
    /\ (k \in ld'.timers) = (k \in ld.timers)
    /\ (k \in Range(ld'.close_commands)) = (k \in Range(ld.close_commands))

(* C6: resolve_close_command(channel, cooperative) completes in one step    *)
(* every close command pending on that channel, each once and all with the  *)
(* same tx, txid and type, and leaves every other close command as it was;  *)
(* no step resolves only some of a channel's pending close commands.        *)
C6_ResolveAllOrNone ==
    [][\A c \in Chans :
          LET P == PendingOn(ld, c)
              R == {k \in P : ld'.cmd[k].status = "success"}
          IN /\ R = {} \/ R = P
             /\ (\E e \in Range(ld'.out.dtc) : e.chan = c)
                  => /\ \A k \in P : /\ ld'.cmd[k].status = "success"
                                     /\ ld'.cmd[k].ndone = 1
                                     /\ Cardinality(CompletionsOf(ld', k)) = 1
                     /\ \A i, j \in 1..Len(ld'.out.completed) :
                           ld'.out.completed[i].result = ld'.out.completed[j].result
                     /\ \A k \in Cmds \ P : Untouched(k)]_vars

\* two close commands were resolved by one call
C6_Witness ==
    /\ ld.out.dtc # <<>>
    /\ Len(ld.out.completed) = 2
    /\ ld.out.completed[1].cmd # ld.out.completed[2].cmd
    /\ \A i \in 1..2 : ld.cmd[ld.out.completed[i].cmd].status = "success"

\* step: the timer of close command k, which is pending, fires
TimerStep(k) ==
    /\ k \in ld.timers
    /\ ld.cmd[k].status = "pending"
    /\ ld'.out.op = "close_command_timeout"
    /\ ld'.out.cmd = k

(* C7: when the timer of a pending close command with force = true fires,  *)
(* the channel is failed permanently with the reason "Forcibly closed by    *)
(* 'close' command timeout", last_tx is signed and broadcast unless a       *)
(* future per-commitment point is set, and every close command pending on   *)
(* the channel completes successfully with type "unilateral".               *)
C7_ForceTimeout ==
    [][\A k \in Cmds :
          (TimerStep(k) /\ ld.cc[k].force)
              => LET c == ld.cc[k].channel
                     tx == ld.channels[c].last_tx
                 IN /\ ld'.aborted = NULL
                    /\ ld'.out.fail_perm =
                          <<[chan |-> c,
                             why |-> "Forcibly closed by 'close' command timeout"]>>
                    /\ ld'.channels[c].state = "AWAITING_UNILATERAL"
                    /\ ~ld.channels[c].future_per_commitment_point
                          => /\ ld'.out.hsm = <<[chan |-> c, tx |-> tx]>>
                             /\ ld'.out.bcast =
                                   <<[chan |-> c,
                                      tx |-> [tx EXCEPT !.witness = "2of2"]]>>
                    /\ \A j \in PendingOn(ld, c) : ResolvedAs(ld', j, "unilateral")]_vars

C7_Witness ==
    /\ TimeoutRan
    /\ ld.aborted = NULL
    /\ ld.out.fail_perm # <<>>
    /\ ld.out.bcast # <<>>
    /\ Len(ld.out.completed) = 2

(* C8: when a channel whose future_per_commitment_point is set is failed    *)
(* permanently, the close commands pending on it are resolved as success    *)
(* with type "unilateral" and last_tx is as it was before the call.         *)
C8_FutureStillResolves ==
    [][\A e \in Range(ld'.out.fail_perm) :
          ld.channels[e.chan].future_per_commitment_point
              => /\ ld'.out.dtc # <<>>
                 /\ \A j \in PendingOn(ld, e.chan) : ResolvedAs(ld', j, "unilateral")
                 /\ ld'.channels[e.chan].last_tx = ld.channels[e.chan].last_tx]_vars

C8_Witness ==
    /\ ld.out.fail_perm # <<>>
    /\ ld.out.dtc # <<>>
    /\ ld.out.dtc[1].future
    /\ ld.out.hsm = <<>>
    /\ ld.out.completed # <<>>

(* C9: a close command resolved through drop_to_chain reports type "mutual" *)
(* exactly when cooperative was true and "unilateral" otherwise, and its tx *)
(* and txid are the channel's last_tx, as it is when the command is         *)
(* resolved, and the txid of that transaction.                              *)
C9_ResultMatches ==
    \A e \in Range(ld.out.dtc) :
        \A r \in Range(ld.out.completed) :
            /\ r.kind = "success"
            /\ r.result.type = (IF e.cooperative THEN "mutual" ELSE "unilateral")
            /\ r.result.tx = [e.last_tx EXCEPT !.witness = NULL]
            /\ r.result.tx = ld.channels[e.chan].last_tx
            /\ r.result.txid = bitcoin_txid(ld.channels[e.chan].last_tx)

\* a mutual close reports the transaction the closing worker negotiated last
C9_Witness ==
    /\ ld.out.dtc # <<>>
    /\ ld.out.dtc[1].cooperative
    /\ ld.out.completed # <<>>
    /\ ld.out.completed[1].result.type = "mutual"
    /\ ld.out.completed[1].result.tx.body[2] = MaxTx

(* C10: when the timer of a pending close command with force = false fires, *)
(* that command alone fails, with "Channel close negotiation not finished   *)
(* before timeout"; no channel record changes, nothing is signed, recorded  *)
(* or broadcast, and every other close command stays as it was.             *)
C10_PlainTimeout ==
    [][\A k \in Cmds :
          (TimerStep(k) /\ ~ld.cc[k].force)
              => /\ ld'.aborted = NULL
                 /\ ld'.out.completed =
                       <<[cmd |-> k, kind |-> "failed",
                          msg |-> "Channel close negotiation not finished before timeout",
                          result |-> NoResult]>>
                 /\ ld'.cmd[k].status = "failed"
                 /\ ld'.channels = ld.channels
                 /\ ld'.out.hsm = <<>> /\ ld'.out.wallet = <<>> /\ ld'.out.bcast = <<>>
                 /\ ld'.out.dtc = <<>> /\ ld'.out.fail_perm = <<>>
                 /\ \A j \in Cmds \ {k} : Untouched(j)]_vars

\* another close command on the same channel is still pending afterwards
C10_Witness ==
    /\ TimeoutRan
    /\ ld.out.completed # <<>>
    /\ ld.out.completed[1].kind = "failed"
    /\ \E j \in Cmds : ld.cmd[j].status = "pending" /\ ld.cc[j].channel = ld.out.chan

\* everything a handler can change, its own trace apart
Rest(s) == [s EXCEPT !.out = NoOut]

\* the outcome of destroying channel c, on which the commands P were pending
ChannelDestroyedOutcome(c, P, msg) ==
    /\ \A k \in P :
          /\ ld'.cmd[k].status = "failed" /\ ld'.cmd[k].ndone = 1
          /\ \A i \in CompletionsOf(ld', k) :
                ld'.out.completed[i] = [cmd |-> k, kind |-> "failed", msg |-> msg,
                                        result |-> NoResult]
          /\ Cardinality(CompletionsOf(ld', k)) = 1
          /\ k \notin Range(ld'.close_commands)
          /\ k \notin ld'.timers
          /\ ~ld'.cc[k].alive
    /\ \A e \in Range(ld'.out.del_destructor2) : e.chan # c
    /\ ld'.destructors[c] = <<>>
    /\ \A k \in Cmds : ld'.cc[k].alive => ld'.channels[ld'.cc[k].channel].alive
    /\ \A k \in Cmds \ P : Untouched(k)

CloseStep(p, k) ==
    /\ ld.peers[p].exists
    /\ ld'.out.op = "close"
    /\ ld'.out.arg = p
    /\ ld'.out.cmd = k

NoCloseRegistered ==
    /\ ld'.close_commands = ld.close_commands
    /\ ld'.cc = ld.cc
    /\ ld'.timers = ld.timers
    /\ ld'.destructors = ld.destructors

(* C12: a close RPC on a channel that is not in CHANNELD_NORMAL,            *)
(* CHANNELD_AWAITING_LOCKIN, CHANNELD_SHUTTING_DOWN or CLOSINGD_SIGEXCHANGE *)
(* fails at once with "Channel is in state <NAME>" and changes nothing: no  *)
(* channel state, no message to a worker, no close command, no timer.       *)
C12_WrongStateNoEffect ==
    [][\A p \in Peers, k \in Cmds :
          LET c == peer_active_channel(ld, p) IN
          (CloseStep(p, k) /\ c # NULL
              /\ ld.channels[c].state \notin
                    {"CHANNELD_NORMAL", "CHANNELD_AWAITING_LOCKIN",
                     "CHANNELD_SHUTTING_DOWN", "CLOSINGD_SIGEXCHANGE"})
              => /\ ld'.aborted = NULL
                 /\ ld'.out.completed =
                       <<[cmd |-> k, kind |-> "failed",
                          msg |-> "Channel is in state " \o ld.channels[c].state,
                          result |-> NoResult]>>
                 /\ Rest(ld') = Rest(ld)
                 /\ NoCloseRegistered
                 /\ ld'.out.subd_msgs = <<>> /\ ld'.out.workers = <<>>
                 /\ ld'.out.hsm = <<>> /\ ld'.out.bcast = <<>>]_vars

\* close was refused on a channel awaiting its unilateral close while a
\* close command registered earlier is still pending elsewhere
C12_Witness ==
    /\ ld.out.op = "close"
    /\ ld.out.completed # <<>>
    /\ ld.out.completed[1].msg = "Channel is in state AWAITING_UNILATERAL"
    /\ ld.close_commands # <<>>

\* what close does on channel c in every state it accepts: the command k is
\* registered and stays pending
CloseRegistered(c, k) ==
    /\ ld'.aborted = NULL
    /\ ld'.out.completed = <<>>
    /\ ld'.cmd[k].status = "pending"
    /\ ld'.cc[k].alive /\ ld'.cc[k].channel = c
    /\ ld'.close_commands = Append(ld.close_commands, k)
    /\ ld'.timers = ld.timers \cup {k}
    /\ ld'.destructors[c] = Append(ld.destructors[c], k)

ShutdownMsg(c) == [chan |-> c, msg |-> "channel_send_shutdown"]

\* sends: what the step must have sent to the worker when it moved the
\* channel to CHANNELD_SHUTTING_DOWN
CloseOutcome(c, k, sends) ==
    /\ CloseRegistered(c, k)
    /\ IF ld.channels[c].state \in {"CHANNELD_NORMAL", "CHANNELD_AWAITING_LOCKIN"}
       THEN /\ ld'.channels =
                  [ld.channels EXCEPT ![c].state = "CHANNELD_SHUTTING_DOWN"]
            /\ ld'.out.subd_msgs = sends
       ELSE /\ ld'.channels = ld.channels
            /\ ld'.out.subd_msgs = <<>>

CloseAccepted(p, k, c) ==
    /\ CloseStep(p, k)
    /\ c # NULL
    /\ ld.channels[c].state \in
          {"CHANNELD_NORMAL", "CHANNELD_AWAITING_LOCKIN",
           "CHANNELD_SHUTTING_DOWN", "CLOSINGD_SIGEXCHANGE"}

(* C13 as stated: close on a channel in CHANNELD_NORMAL or                  *)
(* CHANNELD_AWAITING_LOCKIN moves it to CHANNELD_SHUTTING_DOWN and sends    *)
(* channel_send_shutdown to the channel's worker; in CHANNELD_SHUTTING_DOWN *)
(* or CLOSINGD_SIGEXCHANGE it changes no state and sends nothing; in all    *)
(* four it registers a close command and the RPC stays pending.             *)
C13_ShutdownAlwaysSent ==
    [][\A p \in Peers, k \in Cmds :
          LET c == peer_active_channel(ld, p) IN
          CloseAccepted(p, k, c) => CloseOutcome(c, k, <<ShutdownMsg(c)>>)]_vars

(* C13 amended: ... channel_send_shutdown is sent when the channel has a    *)
(* worker (channel->owner); a channel without one only changes state.       *)
C13_ShutdownSentToOwner ==
    [][\A p \in Peers, k \in Cmds :
          LET c == peer_active_channel(ld, p) IN
          CloseAccepted(p, k, c)
              => CloseOutcome(c, k, IF ld.channels[c].owner # NULL
                                    THEN <<ShutdownMsg(c)>> ELSE <<>>)]_vars

\* the worker of a channel was told to shut down
C13_Witness ==
    /\ ld.out.op = "close"
    /\ ld.out.subd_msgs # <<>>
    /\ ld.out.chan \in Chans
    /\ ld.channels[ld.out.chan].state = "CHANNELD_SHUTTING_DOWN"
    /\ ld.channels[ld.out.chan].owner = "lightning_channeld"
    /\ ld.cmd[ld.out.cmd].status = "pending"

(* C14: close by peer id on a peer without an active channel kills the      *)
(* peer's uncommitted channel and returns null when there is one, and fails *)
(* with "Peer has no active channel" when there is none; neither registers  *)
(* a close command or starts a timer.                                       *)
C14_NoActiveChannel ==
    [][\A p \in Peers, k \in Cmds :
          (CloseStep(p, k) /\ peer_active_channel(ld, p) = NULL)
              => /\ ld'.aborted = NULL
                 /\ NoCloseRegistered
                 /\ ld'.cmd = ld.cmd
                 /\ ld'.channels = ld.channels
                 /\ IF ld.peers[p].uncommitted_channel
                    THEN /\ ld'.out.completed =
                               <<[cmd |-> k, kind |-> "success", msg |-> NULL,
                                  result |-> NoResult]>>
                         /\ ~ld'.peers[p].uncommitted_channel
                    ELSE /\ ld'.out.completed =
                               <<[cmd |-> k, kind |-> "failed",
                                  msg |-> "Peer has no active channel",
                                  result |-> NoResult]>>
                         /\ Rest(ld') = Rest(ld)]_vars

\* close returned null for a peer that had only an uncommitted channel
C14_Witness ==
    /\ ld.out.op = "close"
    /\ ld.out.completed # <<>>
    /\ ld.out.completed[1].kind = "success"
    /\ ld.out.completed[1].result = NoResult
    /\ ~ld.peers[ld.out.arg].uncommitted_channel

\* p is in the registry with no channel and no uncommitted channel
Lonely(p) ==
    /\ ld.peers[p].exists
    /\ ~peer_has_channels(ld, p)
    /\ ~ld.peers[p].uncommitted_channel

(* C15: no peer stays in the registry with an empty channel set and no      *)
(* uncommitted channel: between handlers such a peer is there only while    *)
(* the hook verdict for its connection is outstanding, the handler of the   *)
(* verdict hands it to a worker or removes it.                              *)
C15_NoLonelyPeer ==
    \A p \in Peers : Lonely(p) => ld.payload[p].pending

\* step: the connection of peer p, for which channel c was selected, gets
\* the verdict v of the hook while its payload is intact
VerdictStep(p, c, v) ==
    /\ ld.payload[p].pending
    /\ ~ld.payload[p].freed
    /\ ld.payload[p].channel = c
    /\ ld'.out.op = "peer_connected_hook_cb"
    /\ ld'.out.peer = p
    /\ ld'.out.arg = v

\* step: the connection of peer p arrives and no plugin has the hook
NoHookStep(p, c) ==
    /\ ld'.out.op = "peer_connected"
    /\ ld'.out.peer = p
    /\ ld'.out.arg = "nohook"
    /\ c = IF ld.peers[p].exists THEN peer_active_channel(ld, p) ELSE NULL

ProceedStep(p, c) == VerdictStep(p, c, "continue") \/ NoHookStep(p, c)

Worker(name, p, c, reconnect) ==
    [name |-> name, peer |-> p, chan |-> c, reconnect |-> reconnect,
     send_msg |-> NoError]

(* C16: on a continue verdict, or with no hook, for a connection whose      *)
(* channel has no latched error exactly one worker is started: a channel    *)
(* worker with reconnect = true in CHANNELD_AWAITING_LOCKIN, CHANNELD_NORMAL*)
(* and CHANNELD_SHUTTING_DOWN, a closing worker with reconnect = true in    *)
(* CLOSINGD_SIGEXCHANGE, an opening worker when the peer has no active      *)
(* channel; the dispatch changes no channel's state.                        *)
C16_OneWorkerByState ==
    [][\A p \in Peers :
          /\ ProceedStep(p, NULL)
                => /\ ld'.aborted = NULL
                   /\ ld'.out.workers = <<Worker("lightning_openingd", p, NULL, FALSE)>>
                   /\ ld'.channels = ld.channels
          /\ \A c \in Chans :
                (ProceedStep(p, c) /\ ~ld.channels[c].error.set
                    /\ ld.channels[c].state # "AWAITING_UNILATERAL")
                    => LET w == IF ld.channels[c].state = "CLOSINGD_SIGEXCHANGE"
                                THEN "lightning_closingd" ELSE "lightning_channeld"
                       IN /\ ld'.aborted = NULL
                          /\ ld.channels[c].state \in
                                {"CHANNELD_AWAITING_LOCKIN", "CHANNELD_NORMAL",
                                 "CHANNELD_SHUTTING_DOWN", "CLOSINGD_SIGEXCHANGE"}
                          /\ ld'.out.workers = <<Worker(w, p, c, TRUE)>>
                          /\ ld'.channels = [ld.channels EXCEPT ![c].owner = w]]_vars

\* a reconnection in the middle of the closing negotiation got a closing
\* worker
C16_Witness ==
    /\ ld.aborted = NULL
    /\ ld.out.op = "peer_connected_hook_cb"
    /\ ld.out.arg = "continue"
    /\ ld.out.workers # <<>>
    /\ ld.out.workers[1].name = "lightning_closingd"
    /\ ld.out.workers[1].reconnect

(* C17: when the channel has a latched error and the verdict is continue,   *)
(* that very error is sent to the peer and neither a channel worker nor a   *)
(* closing worker is started, whatever state the channel is in; the error   *)
(* stays latched and the state is as it was.                                *)
C17_LatchedErrorSent ==
    [][\A p \in Peers, c \in Chans :
          (ProceedStep(p, c) /\ ld.channels[c].error.set)
              => /\ ld'.aborted = NULL
                 /\ ld'.out.peer_errors = <<ld.channels[c].error>>
                 /\ \A w \in Range(ld'.out.workers) :
                       w.name \notin {"lightning_channeld", "lightning_closingd"}
                 /\ ld'.channels = ld.channels]_vars

\* the error latched when the funding output was spent, after the channel
\* had been selected for the connection, is what the peer gets
C17_Witness ==
    /\ ld.aborted = NULL
    /\ ld.out.op = "peer_connected_hook_cb"
    /\ ld.out.arg = "continue"
    /\ ld.out.chan \in Chans
    /\ ld.channels[ld.out.chan].state = "FUNDING_SPEND_SEEN"
    /\ ld.out.peer_errors = <<ld.channels[ld.out.chan].error>>
    /\ ld.out.peer_errors[1].data = "Funding transaction spent"

(* C18: on the verdict disconnect no channel worker and no closing worker   *)
(* is started and no channel's state, owner or latched error changes; with  *)
(* an error_message that message goes to the peer as a protocol error, and  *)
(* without one no worker at all is started.                                 *)
C18_DisconnectVerdict ==
    [][\A p \in Peers, c \in Chans \cup {NULL} :
          /\ VerdictStep(p, c, "disconnect_msg")
                => /\ ld'.aborted = NULL
                   /\ ld'.channels = ld.channels
                   /\ ld'.out.peer_errors =
                         <<[set |-> TRUE, channel_id |-> AllChannels,
                            data |-> "plugin error_message"]>>
                   /\ \A w \in Range(ld'.out.workers) :
                         w.name \notin {"lightning_channeld", "lightning_closingd"}
          /\ VerdictStep(p, c, "disconnect")
                => /\ ld'.aborted = NULL
                   /\ ld'.channels = ld.channels
                   /\ ld'.out.peer_errors = <<>>
                   /\ ld'.out.workers = <<>>]_vars

\* the plugin's message was sent on the connection of a channel that would
\* otherwise have been given its channel worker back
C18_Witness ==
    /\ ld.aborted = NULL
    /\ ld.out.op = "peer_connected_hook_cb"
    /\ ld.out.arg = "disconnect_msg"
    /\ ld.out.peer_errors # <<>>
    /\ ld.out.chan \in Chans
    /\ ld.channels[ld.out.chan].state = "CHANNELD_NORMAL"
    /\ ~ld.channels[ld.out.chan].error.set
    /\ ld.channels[ld.out.chan].owner = NULL

TerminalStates == {"ONCHAIN", "FUNDING_SPEND_SEEN", "CLOSINGD_COMPLETE"}

TransientStep(c) ==
    /\ ld'.out.chan = c
    /\ \/ ld'.out.op = "channel_errmsg" /\ ld'.out.arg = "nopps"
       \/ ld'.out.op = "disconnect" /\ ld'.out.arg = "force"

(* C20: a transient failure (channel_errmsg without per-peer state, or      *)
(* disconnect force=true on a peer with an active channel) leaves the       *)
(* channel's state as it was, calls no drop_to_chain, signs and broadcasts  *)
(* nothing and completes no close command; disconnect force=true returns    *)
(* null.                                                                    *)
C20_TransientFailure ==
    [][\A c \in Chans :
          TransientStep(c)
              => /\ ld'.aborted = NULL
                 /\ ld'.channels = [ld.channels EXCEPT ![c].owner = NULL]
                 /\ ld'.out.dtc = <<>> /\ ld'.out.fail_perm = <<>>
                 /\ ld'.out.hsm = <<>> /\ ld'.out.wallet = <<>>
                 /\ ld'.out.bcast = <<>>
                 /\ ld'.out.completed = <<>>
                 /\ ld'.cmd = ld.cmd
                 /\ NoCloseRegistered
                 /\ ld'.out.op = "disconnect"
                       => ld'.out.reply = [kind |-> "success", msg |-> NULL,
                                           tx |-> NoTx]]_vars

\* the worker of a channel that is shutting down under a close command was
\* taken away by disconnect force=true, and the command is still pending
C20_Witness ==
    /\ ld.aborted = NULL
    /\ ld.out.op = "disconnect"
    /\ ld.out.arg = "force"
    /\ ld.out.reply.kind = "success"
    /\ ld.out.chan \in Chans
    /\ ld.channels[ld.out.chan].state = "CHANNELD_SHUTTING_DOWN"
    /\ PendingOn(ld, ld.out.chan) # {}
    /\ ld.out.logs # <<>>

(* C21: a protocol error reported through channel_errmsg with a live        *)
(* per-peer transport and no error message for the peer, on a channel with  *)
(* no latched error, is a transient failure: the channel's state is as it   *)
(* was and drop_to_chain is not called.                                     *)
C21_ProtocolErrorTransient ==
    [][\A c \in Chans :
          (/\ ld'.out.op = "channel_errmsg"
           /\ ld'.out.arg = "pps_noerr"
           /\ ld'.out.chan = c
           /\ ~ld.channels[c].error.set)
              => /\ ld'.channels[c].state = ld.channels[c].state
                 /\ ld'.out.dtc = <<>>
                 /\ ld'.out.fail_perm = <<>>]_vars

\* step: the disconnect RPC for peer p
DisconnectStep(p) == ld'.out.op = "disconnect" /\ ld'.out.peer = p

(* C22: disconnect with force = false on a peer with an active channel      *)
(* fails with "Peer is in state <STATE NAME>" and changes nothing; on an    *)
(* unknown peer, or a peer with neither an active channel nor an            *)
(* uncommitted channel, it fails with "Peer not connected" and changes      *)
(* nothing; on a peer with only an uncommitted channel it kills that        *)
(* uncommitted channel and returns null.                                    *)
C22_Disconnect ==
    [][\A p \in Peers :
          DisconnectStep(p) =>
            LET known == ld.peers[p].exists
                c == IF known THEN peer_active_channel(ld, p) ELSE NULL
                uc == known /\ ld.peers[p].uncommitted_channel
            IN /\ ld'.aborted = NULL
               /\ (c # NULL /\ ld'.out.arg = "noforce")
                     => /\ ld'.out.reply =
                              [kind |-> "fail",
                               msg |-> "Peer is in state " \o ld.channels[c].state,
                               tx |-> NoTx]
                        /\ Rest(ld') = Rest(ld)
               /\ (c = NULL /\ ~uc)
                     => /\ ld'.out.reply = [kind |-> "fail",
                                            msg |-> "Peer not connected",
                                            tx |-> NoTx]
                        /\ Rest(ld') = Rest(ld)
               /\ (c = NULL /\ uc)
                     => /\ ld'.out.reply = [kind |-> "success", msg |-> NULL,
                                            tx |-> NoTx]
                        /\ ~ld'.peers[p].uncommitted_channel
                        /\ ld'.channels = ld.channels
                        /\ ld'.cmd = ld.cmd
                        /\ ld'.out.workers = <<>>]_vars

\* disconnect without force was refused on a channel that a channel worker
\* is running in CHANNELD_NORMAL
C22_Witness ==
    /\ ld.aborted = NULL
    /\ ld.out.op = "disconnect"
    /\ ld.out.arg = "noforce"
    /\ ld.out.chan \in Chans
    /\ ld.out.reply.kind = "fail"
    /\ ld.out.reply.msg = "Peer is in state CHANNELD_NORMAL"
    /\ ld.channels[ld.out.chan].owner = "lightning_channeld"

(* ======================================================================= *)
(*                     setchannelfee (peer_control.c)                      *)
(* ======================================================================= *)
(* The fee handler walks ld->peers and each peer's own list of channels,   *)
(* so here ld carries those lists: a peer may hold closed channels next to *)
(* its one active channel.                                                 *)

\* 64-bit and 32-bit unsigned values as big-endian 16-bit limbs
Limb == 65536
U32Max == <<Limb - 1, Limb - 1>>

\* the msat amounts the base parameter is tried with: 0, 1000, 2^32 - 1,
\* 2^32 and 2^32 + 1000
BaseValues == {<<0, 0, 0, 0>>, <<0, 0, 0, 1000>>, <<0, 0, Limb - 1, Limb - 1>>,
               <<0, 1, 0, 0>>, <<0, 1, 0, 1000>>}
PpmValues == {10}

\* truncation to 32 bits that is not compared back
amount_msat_to_u32_truncating(msat) ==
    [ok |-> TRUE, num |-> <<msat[3], msat[4]>>]

\* *num = msat; return *num == msat
amount_msat_to_u32(msat) ==
    [ok |-> msat = <<0, 0, msat[3], msat[4]>>, num |-> <<msat[3], msat[4]>>]

param_msat_u32(msat) ==
    LET r == amount_msat_to_u32(msat)
    IN IF r.ok THEN [fail |-> NULL, num |-> r.num]
       ELSE [fail |-> "'base' value exceeds u32 max", num |-> r.num]

FeePeerList == <<"p1", "p2">>
FeeChans == {"c1", "c2", "c3"}
FeeStates == {"CHANNELD_AWAITING_LOCKIN", "CHANNELD_NORMAL",
              "AWAITING_UNILATERAL", "ONCHAIN"}
\* the lists of channels a peer may hold, in list order
FeeChanLists == [p1 |-> {<<>>, <<"c1">>, <<"c1", "c3">>, <<"c3", "c1">>},
                 p2 |-> {<<>>, <<"c2">>}]

\* index in the peer's list of its first active channel, 0 for NULL
RECURSIVE first_active(_, _, _)
first_active(s, lst, i) ==
    IF i > Len(lst) THEN 0
    ELSE IF channel_active(s.channels[lst[i]]) THEN i
    ELSE first_active(s, lst, i + 1)

peer_active_channel_of(s, p) ==
    LET j == first_active(s, s.chanlist[p], 1)
    IN IF j = 0 THEN NULL ELSE s.chanlist[p][j]

param_channel_or_all(s, id) ==
    IF id = "all" THEN [fail |-> NULL, channel |-> NULL]
    ELSE LET c == peer_active_channel_of(s, id)
         IN IF c = NULL
            THEN [fail |-> "Could not find active channel of peer with that id",
                  channel |-> NULL]
            ELSE [fail |-> NULL, channel |-> c]

set_channel_fees(s, c, base, ppm) ==
    LET s1 == [s EXCEPT !.channels[c].feerate_base = base,
                        !.channels[c].feerate_ppm = ppm]
        s2 == IF s1.channels[c].owner = "lightning_channeld"
              THEN [s1 EXCEPT !.out.subd_msgs =
                        Append(@, [chan |-> c,
                                   msg |-> <<"channel_specific_feerates",
                                             base, ppm>>])]
              ELSE s1
        s3 == [s2 EXCEPT !.out.saved = Append(@, c)]
    IN [s3 EXCEPT !.out.channels = Append(@, c)]

fee_target_state(ch) ==
    ch.state \in {"CHANNELD_NORMAL", "CHANNELD_AWAITING_LOCKIN"}

\* what the step of list_for_each does when the body has left NULL in the
\* loop variable: it reads NULL->list.next
NullStepOutcomes == {"segv", "end_of_list"}

\* list_for_each(&peer->channels, channel, list) whose body overwrites the
\* loop variable with peer_active_channel(peer): the step continues from the
\* active channel, not from the element the iteration had reached.  i is the
\* list position the loop variable holds at the top of the body.
RECURSIVE fee_walk_channels(_, _, _, _, _, _)
fee_walk_channels(s, p, i, base, ppm, ub) ==
    IF s.aborted # NULL \/ i > Len(s.chanlist[p]) THEN s
    ELSE
    LET j == first_active(s, s.chanlist[p], 1) IN
    IF j = 0
    THEN IF ub = "segv" THEN abort_(s, "NULL dereference in list_for_each")
         ELSE s
    ELSE
    LET c == s.chanlist[p][j]
        s1 == IF fee_target_state(s.channels[c])
              THEN set_channel_fees(s, c, base, ppm)
              ELSE s
    IN IF j < i
       THEN \* the step leads back to position i: the loop never ends
            abort_(s1, "setchannelfee never returns")
       ELSE fee_walk_channels(s1, p, j + 1, base, ppm, ub)

RECURSIVE fee_walk_peers(_, _, _, _, _)
fee_walk_peers(s, n, base, ppm, ub) ==
    IF n > Len(FeePeerList) THEN s
    ELSE fee_walk_peers(fee_walk_channels(s, FeePeerList[n], 1, base, ppm, ub),
                        n + 1, base, ppm, ub)

json_setchannelfee(s, id, base_msat, ppm, ub) ==
    LET ch == param_channel_or_all(s, id)
        b == param_msat_u32(base_msat)
    IN
    IF ch.fail # NULL
    THEN [s EXCEPT !.out.reply = Reply("fail", ch.fail, NoTx)]
    ELSE IF b.fail # NULL
    THEN [s EXCEPT !.out.reply = Reply("fail", b.fail, NoTx)]
    ELSE
    LET s0 == [s EXCEPT !.out.base = b.num, !.out.ppm = ppm] IN
    IF ch.channel = NULL
    THEN [fee_walk_peers(s0, 1, b.num, ppm, ub)
             EXCEPT !.out.reply = Reply("success", NULL, NoTx)]
    ELSE IF ~fee_target_state(s0.channels[ch.channel])
    THEN [s EXCEPT !.out.reply =
              Reply("fail", "Channel is in state "
                            \o channel_state_name(s.channels[ch.channel]), NoTx)]
    ELSE [set_channel_fees(s0, ch.channel, b.num, ppm)
             EXCEPT !.out.reply = Reply("success", NULL, NoTx)]

FeeNoOut == [op |-> "init", id |-> NULL, base_msat |-> <<0, 0, 0, 0>>,
             base |-> <<0, 0>>, ppm |-> 0, reply |-> Reply("none", NULL, NoTx),
             channels |-> <<>>, subd_msgs |-> <<>>, saved |-> <<>>]

\* config.fee_base and config.fee_per_satoshi, which every channel starts with
FeeConfig == [fee_base |-> <<0, 1>>, fee_per_satoshi |-> 1]

FeeInit ==
    \E st \in [FeeChans -> FeeStates], l1 \in FeeChanLists.p1,
       l2 \in FeeChanLists.p2, conn \in [FeeChans -> BOOLEAN] :
        LET lists == [p1 |-> l1, p2 |-> l2]
            held(c) == \E p \in DOMAIN lists : c \in {lists[p][i] : i \in 1..Len(lists[p])}
        IN
        \* a peer has at most one active channel; a channel in no list does not
        \* exist; only a channel in normal operation has a channel worker
        /\ \A p \in DOMAIN lists :
              Cardinality({i \in 1..Len(lists[p]) : st[lists[p][i]] # "ONCHAIN"}) <= 1
        /\ \A c \in FeeChans : ~held(c) => st[c] = "ONCHAIN" /\ ~conn[c]
        /\ \A c \in FeeChans : conn[c] => st[c] \in {"CHANNELD_NORMAL",
                                                     "CHANNELD_AWAITING_LOCKIN"}
        /\ ld = [chanlist |-> lists,
                 channels |-> [c \in FeeChans |->
                                  [state |-> st[c],
                                   owner |-> IF conn[c] THEN "lightning_channeld"
                                             ELSE NULL,
                                   feerate_base |-> FeeConfig.fee_base,
                                   feerate_ppm |-> FeeConfig.fee_per_satoshi]],
                 aborted |-> NULL,
                 out |-> FeeNoOut]

JsonSetchannelfee ==
    /\ ld.aborted = NULL
    /\ \E id \in {"all", "p1", "p2"}, base_msat \in BaseValues, ppm \in PpmValues,
          ub \in NullStepOutcomes :
        LET s0 == [ld EXCEPT !.out = [FeeNoOut EXCEPT !.op = "setchannelfee",
                                                      !.id = id,
                                                      !.base_msat = base_msat]]
            s1 == json_setchannelfee(s0, id, base_msat, ppm, ub)
        IN ld' = IF s1.aborted # NULL
                 THEN [ld EXCEPT !.aborted = s1.aborted, !.out = s0.out]
                 ELSE s1

FeeNext == JsonSetchannelfee

FeeSpec == FeeInit /\ [][FeeNext]_vars

\* the channels that are in some peer's list
FeeHeld(s) == {c \in FeeChans : \E p \in DOMAIN s.chanlist :
                                   c \in Range(s.chanlist[p])}

FeeTargets(s) == {c \in FeeHeld(s) : s.channels[c].state \in
                                        {"CHANNELD_NORMAL", "CHANNELD_AWAITING_LOCKIN"}}

FitsU32(msat) == msat[1] = 0 /\ msat[2] = 0

(* C23: setchannelfee with id "all" and a base that fits sets feerate_base  *)
(* and feerate_ppm on exactly the channels in CHANNELD_NORMAL or            *)
(* CHANNELD_AWAITING_LOCKIN, lists exactly those channels, each once, in    *)
(* the channels array of its response, and leaves every other channel's     *)
(* fees as they were and unsaved.                                           *)
C23_AllSetsExactlyTargets ==
    [][(/\ ld'.out.op = "setchannelfee"
        /\ ld'.out.id = "all"
        /\ FitsU32(ld'.out.base_msat))
          => /\ ld'.aborted = NULL
             /\ ld'.out.reply.kind = "success"
             /\ Range(ld'.out.channels) = FeeTargets(ld)
             /\ Len(ld'.out.channels) = Cardinality(FeeTargets(ld))
             /\ \A c \in FeeTargets(ld) :
                   /\ ld'.channels[c].feerate_base = ld'.out.base
                   /\ ld'.channels[c].feerate_ppm = ld'.out.ppm
             /\ \A c \in FeeChans \ FeeTargets(ld) :
                   /\ ld'.channels[c] = ld.channels[c]
                   /\ c \notin Range(ld'.out.saved)]_vars

FeeUntouched ==
    /\ ld'.aborted = NULL
    /\ ld'.channels = ld.channels
    /\ ld'.chanlist = ld.chanlist
    /\ ld'.out.subd_msgs = <<>>
    /\ ld'.out.saved = <<>>
    /\ ld'.out.channels = <<>>

(* C24: a setchannelfee that fails, because the one targeted channel is not *)
(* in CHANNELD_NORMAL or CHANNELD_AWAITING_LOCKIN or because base does not  *)
(* fit in 32 bits, changes no channel's feerate_base or feerate_ppm, sends  *)
(* nothing to a worker and saves nothing; a base from 0 to 2^32 - 1 is      *)
(* accepted and becomes the feerate_base, 2^32 and above is rejected.       *)
C24_FailedFeeNoEffect ==
    [][ld'.out.op = "setchannelfee" =>
          LET id == ld'.out.id
              msat == ld'.out.base_msat
              c == IF id = "all" THEN NULL ELSE peer_active_channel_of(ld, id)
          IN /\ ld'.out.reply.kind = "fail" => FeeUntouched
             /\ (c # NULL /\ ld.channels[c].state \notin
                                {"CHANNELD_NORMAL", "CHANNELD_AWAITING_LOCKIN"})
                   => /\ ld'.out.reply.kind = "fail"
                      /\ FitsU32(msat)
                            => ld'.out.reply.msg =
                                   "Channel is in state " \o ld.channels[c].state
             /\ ~FitsU32(msat) => ld'.out.reply.kind = "fail"
             /\ (c # NULL /\ FitsU32(msat)
                    /\ ld.channels[c].state \in
                          {"CHANNELD_NORMAL", "CHANNELD_AWAITING_LOCKIN"})
                   => /\ ld'.out.reply.kind = "success"
                      /\ ld'.channels[c].feerate_base = <<msat[3], msat[4]>>
                      /\ ld'.out.saved = <<c>>]_vars

\* base = 2^32 msat was refused for a peer whose channel is in normal
\* operation with its worker, and the channel still has the configured fees
C24_Witness ==
    /\ ld.out.op = "setchannelfee"
    /\ ld.out.id = "p1"
    /\ ld.out.base_msat = <<0, 1, 0, 0>>
    /\ ld.out.reply.kind = "fail"
    /\ ld.channels["c1"].state = "CHANNELD_NORMAL"
    /\ ld.channels["c1"].owner = "lightning_channeld"
    /\ ld.chanlist["p1"] = <<"c1">>
    /\ ld.channels["c1"].feerate_base = FeeConfig.fee_base

(* ======================================================================= *)
(*                 funding depth watch (funding_depth_cb)                  *)
(* ======================================================================= *)
(* ld is as above, the watched channel carrying its minimum_depth and scid *)
(* as well, and ld.watch says whether the txid watch is still registered.  *)

ANNOUNCE_MIN_DEPTH == 6
MaxDepth == 7
MinimumDepths == {1, 3, 7}
DepthChan == "c1"

\* where the wallet finds the funding transaction: two places in the chain
\* (a reorganisation moves it) and one whose height does not fit 24 bits
NoLoc == [blkheight |-> 0, index |-> 0]
TxLocs == {[blkheight |-> 100, index |-> 1], [blkheight |-> 101, index |-> 2],
           [blkheight |-> 16777216, index |-> 1]}

\* channel->scid: NULL until the id is assigned
NoScid == [set |-> FALSE, u64 |-> <<0, 0, 0>>]
Scid(id) == [set |-> TRUE, u64 |-> id]

\* block height and index on 24 bits, output number on 16
mk_short_channel_id(blkheight, index, outnum) ==
    [ok |-> blkheight < 16777216 /\ index < 16777216 /\ outnum < 65536,
     scid |-> Scid(<<blkheight, index, outnum>>)]

short_channel_id_eq(a, b) == a.u64 = b.u64

wallet_channel_save(s, c) == [s EXCEPT !.out.saved = Append(@, c)]

wallet_transaction_annotate(s, c) == [s EXCEPT !.out.annotated = Append(@, c)]

DepthNoOut == NoOut @@ [result |-> NULL, depth |-> 0, loc |-> NoLoc,
                        told |-> FALSE, saved |-> <<>>, annotated |-> <<>>]

\* the scid branch going on to tell the worker after a changed id
store_scid_reorg_falls_through(s, c, scid) ==
    IF ~s.channels[c].scid.set
    THEN wallet_channel_save([s EXCEPT !.channels[c].scid = scid], c)
    ELSE IF ~short_channel_id_eq(s.channels[c].scid, scid)
    THEN LET s1 == channel_fail_transient(s, c, "short_channel_id changed")
         IN wallet_channel_save([s1 EXCEPT !.channels[c].scid = scid], c)
    ELSE s

\* the scid branch saving the record whether the id is new or not
store_scid_always_save(s, c, scid) ==
    IF ~s.channels[c].scid.set
    THEN wallet_channel_save([s EXCEPT !.channels[c].scid = scid], c)
    ELSE IF ~short_channel_id_eq(s.channels[c].scid, scid)
    THEN LET s1 == channel_fail_transient(s, c, "short_channel_id changed")
             s2 == wallet_channel_save([s1 EXCEPT !.channels[c].scid = scid], c)
         IN [s2 EXCEPT !.out.result = "KEEP_WATCHING"]
    ELSE wallet_channel_save(s, c)

\* first assignment, or a changed id after a reorganisation, which returns
\* KEEP_WATCHING at once; the same id again does nothing
store_scid(s, c, scid) ==
    IF ~s.channels[c].scid.set
    THEN wallet_channel_save([s EXCEPT !.channels[c].scid = scid], c)
    ELSE IF ~short_channel_id_eq(s.channels[c].scid, scid)
    THEN LET s1 == channel_fail_transient(s, c, "short_channel_id changed")
             s2 == wallet_channel_save([s1 EXCEPT !.channels[c].scid = scid], c)
         IN [s2 EXCEPT !.out.result = "KEEP_WATCHING"]
    ELSE s

\* the end of the callback with the wait for the announce depth left out
watch_result_no_announce_wait(told, depth, minimum_depth) ==
    IF ~told THEN "KEEP_WATCHING"
    ELSE IF ~(depth >= minimum_depth) THEN "KEEP_WATCHING"
    ELSE "DELETE_WATCH"

watch_result(told, depth, minimum_depth) ==
    IF ~told THEN "KEEP_WATCHING"
    ELSE IF ~(depth >= minimum_depth) THEN "KEEP_WATCHING"
    ELSE IF depth < ANNOUNCE_MIN_DEPTH THEN "KEEP_WATCHING"
    ELSE "DELETE_WATCH"

funding_depth_cb(s, c, depth, loc, told) ==
    LET ch == s.channels[c]
        min_depth_reached == depth >= ch.minimum_depth
        s0 == log_(s, c, "debug", "Funding tx depth")
        r == mk_short_channel_id(loc.blkheight, loc.index, FundingOutnum(c))
        s1 == IF (min_depth_reached /\ ~ch.scid.set) \/ (depth # 0 /\ ch.scid.set)
              THEN LET a == wallet_transaction_annotate(s0, c)
                   IN IF ~r.ok
                      THEN [channel_fail_permanent(a, c, "Invalid funding scid")
                               EXCEPT !.out.result = "DELETE_WATCH"]
                      ELSE store_scid(a, c, r.scid)
              ELSE s0
    IN IF s1.out.result # NULL THEN s1
       ELSE [s1 EXCEPT !.out.result = watch_result(told, depth, ch.minimum_depth),
                       !.out.subd_msgs =
                           IF told THEN Append(@, [chan |-> c, msg |-> "channel_tell_depth"])
                           ELSE @]

DepthInit ==
    \E st \in {"CHANNELD_AWAITING_LOCKIN", "CHANNELD_NORMAL"},
       md \in MinimumDepths, running \in BOOLEAN,
       scid \in {NoScid, Scid(<<100, 1, FundingOutnum(DepthChan)>>)} :
        LET base == InitLd([c \in Chans |-> IF c = DepthChan THEN st
                                            ELSE "CHANNELD_NORMAL"],
                           [c \in Chans |-> FALSE])
        IN \* a channel in normal operation has its short-channel-id
           /\ st = "CHANNELD_NORMAL" => scid.set
           /\ ld = [base EXCEPT
                      !.channels = [c \in Chans |->
                                       [scid |-> IF c = DepthChan THEN scid ELSE NoScid,
                                        minimum_depth |-> md] @@
                                       [@[c] EXCEPT !.owner =
                                           IF c = DepthChan /\ running
                                           THEN "lightning_channeld" ELSE NULL]],
                      !.out = DepthNoOut] @@ [watch |-> TRUE]

\* the chain watcher reports a depth of the funding transaction; a channel
\* without a channel worker cannot be told
FundingDepthCb ==
    /\ ld.aborted = NULL
    /\ ld.watch
    /\ \E depth \in 0..MaxDepth, loc \in TxLocs, told \in BOOLEAN :
        LET c == DepthChan
            s0 == [ld EXCEPT !.out = [DepthNoOut EXCEPT !.op = "funding_depth_cb",
                                                         !.chan = c,
                                                         !.depth = depth,
                                                         !.loc = loc,
                                                         !.told = told]]
            s1 == funding_depth_cb(s0, c, depth, loc, told)
        IN /\ ld.channels[c].alive
           /\ told => ld.channels[c].owner = "lightning_channeld"
           /\ ld' = [s1 EXCEPT !.watch = (s1.out.result = "KEEP_WATCHING")]

\* the peer reconnects and the channel worker is started again
DepthReconnect ==
    /\ ld.aborted = NULL
    /\ LET c == DepthChan IN
        /\ ld.channels[c].alive
        /\ ld.channels[c].owner = NULL
        /\ ~ld.channels[c].error.set
        /\ ld.channels[c].state \in {"CHANNELD_AWAITING_LOCKIN", "CHANNELD_NORMAL"}
        /\ ld' = peer_start_channeld(
                     [ld EXCEPT !.out = [DepthNoOut EXCEPT !.op = "peer_connected",
                                                           !.chan = c]],
                     c, TRUE)

\* the channel worker reports the funding locked in, which takes a
\* short-channel-id
DepthLockin ==
    /\ ld.aborted = NULL
    /\ LET c == DepthChan IN
        /\ ld.channels[c].alive
        /\ ld.channels[c].owner = "lightning_channeld"
        /\ ld.channels[c].state = "CHANNELD_AWAITING_LOCKIN"
        /\ ld.channels[c].scid.set
        /\ ld' = lockin_complete(
                     [ld EXCEPT !.out = [DepthNoOut EXCEPT !.op = "lockin_complete",
                                                           !.chan = c]],
                     c)

DepthNext ==
    \/ FundingDepthCb
    \/ DepthReconnect
    \/ DepthLockin

DepthSpec == DepthInit /\ [][DepthNext]_vars

\* step: a depth callback on channel c
DepthStep(c) == ld'.out.op = "funding_depth_cb" /\ ld'.out.chan = c

\* the callback of this step goes to the wallet for the transaction's place
DepthLooksUp(c) ==
    \/ ld'.out.depth >= ld.channels[c].minimum_depth /\ ~ld.channels[c].scid.set
    \/ ld'.out.depth # 0 /\ ld.channels[c].scid.set

\* the short-channel-id of the place the wallet gives in this step
DepthLocated(c) ==
    mk_short_channel_id(ld'.out.loc.blkheight, ld'.out.loc.index, FundingOutnum(c))

(* C25: a depth callback whose located (block height, tx index, funding     *)
(* outnum) gives the short-channel-id the channel already has leaves the    *)
(* id, saves nothing and does not fail the channel; the record is saved     *)
(* only when the id is assigned for the first time or changes.              *)
C25_SameScidNotSaved ==
    [][\A c \in Chans :
          DepthStep(c) =>
            LET old == ld.channels[c].scid
                new == DepthLocated(c)
            IN /\ (DepthLooksUp(c) /\ new.ok /\ old = new.scid)
                     => /\ ld'.channels[c] = ld.channels[c]
                        /\ ld'.out.saved = <<>>
                        /\ ld'.out.fail_perm = <<>>
                        /\ ld'.out.dtc = <<>>
               /\ ld'.out.saved # <<>>
                     => /\ DepthLooksUp(c) /\ new.ok
                        /\ ~old.set \/ old # new.scid
                        /\ ld'.channels[c].scid = new.scid
                        /\ ld'.out.saved = <<c>>]_vars

\* the callback came again at the place the stored id is made of, at the
\* announce depth: the wallet was asked, nothing was saved
C25_Witness ==
    /\ ld.out.op = "funding_depth_cb"
    /\ ld.out.depth = ANNOUNCE_MIN_DEPTH
    /\ ld.out.annotated = <<DepthChan>>
    /\ ld.channels[DepthChan].scid =
          Scid(<<ld.out.loc.blkheight, ld.out.loc.index, FundingOutnum(DepthChan)>>)
    /\ ld.out.saved = <<>>
    /\ ld.channels[DepthChan].state = "CHANNELD_NORMAL"
    /\ ld.channels[DepthChan].owner = "lightning_channeld"

WatchRule(c) ==
    /\ ld'.out.depth < ANNOUNCE_MIN_DEPTH => ld'.out.result = "KEEP_WATCHING"
    /\ (ld'.out.depth < ld.channels[c].minimum_depth \/ ~ld'.out.told)
          => ld'.out.result = "KEEP_WATCHING"
    /\ ld'.out.result = "DELETE_WATCH" => ld'.out.depth >= ANNOUNCE_MIN_DEPTH
    /\ ld'.watch = (ld'.out.result = "KEEP_WATCHING")

(* C26 as stated: funding_depth_cb returns KEEP_WATCHING on every call with *)
(* depth < ANNOUNCE_MIN_DEPTH, and whenever depth < minimum_depth or the    *)
(* worker refused the depth; it returns DELETE_WATCH only once depth is at  *)
(* least ANNOUNCE_MIN_DEPTH.                                                *)
C26_KeepBelowAnnounceDepth ==
    [][\A c \in Chans : DepthStep(c) => WatchRule(c)]_vars

(* C26 amended: the same on every call that does not find an invalid        *)
(* short-channel-id; a call that looks the transaction up and cannot form a *)
(* valid id fails the channel permanently with "Invalid funding scid" and   *)
(* returns DELETE_WATCH at whatever depth.                                  *)
C26_KeepUnlessInvalidScid ==
    [][\A c \in Chans :
          DepthStep(c) =>
            IF DepthLooksUp(c) /\ ~DepthLocated(c).ok
            THEN /\ ld'.out.result = "DELETE_WATCH"
                 /\ ~ld'.watch
                 /\ ld'.out.fail_perm = <<[chan |-> c, why |-> "Invalid funding scid"]>>
            ELSE /\ WatchRule(c)
                 /\ ld'.out.fail_perm = <<>>]_vars

\* the watch was deleted at the announce depth on a channel that was told
C26_Witness ==
    /\ ld.out.op = "funding_depth_cb"
    /\ ld.out.result = "DELETE_WATCH"
    /\ ~ld.watch
    /\ ld.out.told
    /\ ld.out.depth >= ANNOUNCE_MIN_DEPTH
    /\ ld.out.depth >= ld.channels[DepthChan].minimum_depth
    /\ ld.out.fail_perm = <<>>

(* ======================================================================= *)
(*                  listpeers (json_listpeers and below)                   *)
(* ======================================================================= *)
(* ld is the part of struct lightningd that the read-model is made from:   *)
(* the peers in list order, each with its channels, its uncommitted        *)
(* channel and its log book; amounts are 64-bit, as four 16-bit limbs.     *)

\* x * k on 64 bits, ok when nothing was carried out of them
LimbMul(x, k) ==
    LET m4 == x[4] * k
        m3 == x[3] * k + m4 \div Limb
        m2 == x[2] * k + m3 \div Limb
        m1 == x[1] * k + m2 \div Limb
    IN [ok |-> m1 \div Limb = 0,
        val |-> <<m1 % Limb, m2 % Limb, m3 % Limb, m4 % Limb>>]

\* a - b on 64 bits, ok when nothing was borrowed from outside them
LimbSub(a, b) ==
    LET d4 == a[4] - b[4]
        d3 == a[3] - b[3] - (IF d4 < 0 THEN 1 ELSE 0)
        d2 == a[2] - b[2] - (IF d3 < 0 THEN 1 ELSE 0)
        d1 == a[1] - b[1] - (IF d2 < 0 THEN 1 ELSE 0)
    IN [ok |-> d1 >= 0,
        val |-> <<(d1 + Limb) % Limb, (d2 + Limb) % Limb,
                  (d3 + Limb) % Limb, (d4 + Limb) % Limb>>]

Zero64 == <<0, 0, 0, 0>>

amount_sat_to_msat(sat) == LimbMul(sat, 1000)

amount_msat_sub(a, b) == LimbSub(a, b)

amount_msat_sub_sat(msat, sat) ==
    LET b == amount_sat_to_msat(sat)
    IN IF ~b.ok THEN [ok |-> FALSE, val |-> Zero64]
       ELSE amount_msat_sub(msat, b.val)

\* funding amounts in satoshi: 100000, and 18446744073709552, the least
\* amount whose value in msat does not fit 64 bits
FundingValues == {<<0, 0, 1, 34464>>, <<65, 35127, 19398, 42992>>}
\* balances in msat: 0, 5000000 and 2^64 - 1
MsatValues == {Zero64, <<0, 0, 76, 19264>>,
               <<Limb - 1, Limb - 1, Limb - 1, Limb - 1>>}
\* reserves in satoshi: 0, 1000, 10000, 18446744073709551 (the greatest
\* amount that converts) and 18446744073709552
ReserveValues == {Zero64, <<0, 0, 0, 1000>>, <<0, 0, 0, 10000>>,
                  <<65, 35127, 19398, 42991>>, <<65, 35127, 19398, 42992>>}

MaxLog == 3
LogLevels == <<"debug", "info", "unusual", "broken">>
LevelRank(l) == CHOOSE i \in 1..Len(LogLevels) : LogLevels[i] = l

ListPeerList == <<"p1", "p2">>
ListChanList(p) == IF p = "p1" THEN <<"c1">> ELSE <<"c2">>

\* channel->log writes into the log book of the channel's peer
list_log(s, p, level, msg) ==
    [s EXCEPT !.log_book[p] = Append(@, [level |-> level, msg |-> msg])]

\* the entries at or above the level asked for
json_add_log(book, ll) ==
    SelectSeq(book, LAMBDA e : LevelRank(e.level) >= LevelRank(ll))

\* the conversion of the funding amount reporting an overflow on every call
funding_total_msat_logs_always(s, p, c) ==
    LET r == amount_sat_to_msat(s.channels[c].funding)
    IN [s |-> list_log(s, p, "broken", "Overflow converting funding"),
        msat |-> IF r.ok THEN r.val ELSE Zero64]

\* msatoshi_total: the funding in msat, 0 and a line in the log on overflow
funding_total_msat(s, p, c) ==
    LET r == amount_sat_to_msat(s.channels[c].funding)
    IN IF ~r.ok
       THEN [s |-> list_log(s, p, "broken", "Overflow converting funding"),
             msat |-> Zero64]
       ELSE [s |-> s, msat |-> r.val]

\* the subtraction taken as it comes, wrapped when it fails
spendable_msat_no_floor(ch) ==
    LimbSub(ch.our_msat, LimbMul(ch.their_channel_reserve, 1000).val).val

spendable_msat(ch) ==
    LET r == amount_msat_sub_sat(ch.our_msat, ch.their_channel_reserve)
    IN IF ~r.ok THEN Zero64 ELSE r.val

json_add_channel(s, p, c) ==
    LET ch == s.channels[c]
        f == funding_total_msat(s, p, c)
    IN [f.s EXCEPT !.out.response[Len(s.out.response)].channels =
            Append(@, [state |-> channel_state_name(ch),
                       owner |-> ch.owner,
                       to_us_msat |-> ch.our_msat,
                       total_msat |-> f.msat,
                       our_reserve |-> ch.their_channel_reserve,
                       spendable_msat |-> spendable_msat(ch)])]

RECURSIVE list_channels(_, _, _)
list_channels(s, p, i) ==
    IF i > Len(ListChanList(p)) THEN s
    ELSE list_channels(json_add_channel(s, p, ListChanList(p)[i]), p, i + 1)

json_add_peer(s, p, ll) ==
    LET c == ListChanList(p)[1]
        connected == s.uncommitted[p] \/ s.channels[c].owner # NULL
        s1 == [s EXCEPT !.out.response =
                   Append(@, [id |-> p, connected |-> connected,
                              uncommitted_channel |-> s.uncommitted[p],
                              channels |-> <<>>, log |-> <<>>])]
        s2 == list_channels(s1, p, 1)
    IN IF ll # NULL
       THEN [s2 EXCEPT !.out.response[Len(s2.out.response)].log =
                           json_add_log(s2.log_book[p], ll)]
       ELSE s2

RECURSIVE list_peers(_, _, _)
list_peers(s, n, ll) ==
    IF n > Len(ListPeerList) THEN s
    ELSE list_peers(json_add_peer(s, ListPeerList[n], ll), n + 1, ll)

json_listpeers(s, specific_id, ll) ==
    IF specific_id # NULL
    THEN IF s.known[specific_id] THEN json_add_peer(s, specific_id, ll) ELSE s
    ELSE list_peers(s, 1, ll)

ListNoOut == [op |-> "init", id |-> NULL, level |-> NULL, response |-> <<>>]

ListInit ==
    \E funding \in [{"c1", "c2"} -> FundingValues], our \in MsatValues,
       reserve \in ReserveValues, running \in BOOLEAN :
        ld = [channels |-> [c \in {"c1", "c2"} |->
                               [state |-> "CHANNELD_NORMAL",
                                owner |-> IF c = "c1" /\ running
                                          THEN "lightning_channeld" ELSE NULL,
                                funding |-> funding[c],
                                our_msat |-> IF c = "c1" THEN our ELSE Zero64,
                                their_channel_reserve |->
                                    IF c = "c1" THEN reserve ELSE Zero64]],
              known |-> [p \in {"p1", "p2", "p3"} |-> p # "p3"],
              uncommitted |-> [p \in {"p1", "p2"} |-> FALSE],
              log_book |-> [p \in {"p1", "p2"} |->
                               <<[level |-> "debug", msg |-> "loaded"]>>],
              aborted |-> NULL,
              out |-> ListNoOut]

\* room in the log books for what this call may write
ListLogRoom == \A p \in {"p1", "p2"} : Len(ld.log_book[p]) < MaxLog

JsonListpeers ==
    /\ ListLogRoom
    /\ \E id \in {NULL, "p1", "p2", "p3"}, ll \in {NULL, "debug", "broken"} :
        ld' = json_listpeers([ld EXCEPT !.out = [ListNoOut EXCEPT !.op = "listpeers",
                                                                  !.id = id,
                                                                  !.level = ll]],
                             id, ll)

\* an event between two calls: a payment moves the balance of c1, and the
\* channel worker says so in the log
ListPayment ==
    /\ ListLogRoom
    /\ \E our \in MsatValues :
        /\ our # ld.channels["c1"].our_msat
        /\ ld' = list_log([ld EXCEPT !.channels["c1"].our_msat = our,
                                     !.out = [ListNoOut EXCEPT !.op = "payment"]],
                          "p1", "info", "payment")

ListNext ==
    \/ JsonListpeers
    \/ ListPayment

ListSpec == ListInit /\ [][ListNext]_vars

\* a <= b on 64 bits
RECURSIVE LimbLeqFrom(_, _, _)
LimbLeqFrom(a, b, i) ==
    IF i > 4 THEN TRUE
    ELSE IF a[i] < b[i] THEN TRUE
    ELSE IF a[i] > b[i] THEN FALSE
    ELSE LimbLeqFrom(a, b, i + 1)

LimbLeq(a, b) == LimbLeqFrom(a, b, 1)

\* a + b on 64 bits, ok when nothing was carried out of them
LimbAdd(a, b) ==
    LET s4 == a[4] + b[4]
        s3 == a[3] + b[3] + s4 \div Limb
        s2 == a[2] + b[2] + s3 \div Limb
        s1 == a[1] + b[1] + s2 \div Limb
    IN [ok |-> s1 \div Limb = 0,
        val |-> <<s1 % Limb, s2 % Limb, s3 % Limb, s4 % Limb>>]

\* the greatest amount in satoshi whose msat value fits 64 bits:
\* 18446744073709551 = (2^64 - 1) div 1000
MaxSatForMsat == <<65, 35127, 19398, 42991>>

\* the peers a listpeers call with this id walks
Listed(id) == IF id = NULL THEN {"p1", "p2"} ELSE {id} \cap {"p1", "p2"}

\* the channels of p whose funding has no msat value
Overflowing(s, p) ==
    {i \in 1..Len(ListChanList(p)) :
        ~LimbLeq(s.channels[ListChanList(p)[i]].funding, MaxSatForMsat)}

ListpeersStep == ld'.out.op = "listpeers"

\* this listpeers call follows another with the same parameters directly
ListpeersAgain ==
    /\ ListpeersStep
    /\ ld.out.op = "listpeers"
    /\ ld'.out.id = ld.out.id
    /\ ld'.out.level = ld.out.level

(* C27 as stated: listpeers changes no peer, channel or log state, and two  *)
(* consecutive listpeers calls with the same parameters and no event in     *)
(* between return identical content.                                        *)
C27_ListpeersReadOnly ==
    [][/\ ListpeersStep => [ld' EXCEPT !.out = ListNoOut] = [ld EXCEPT !.out = ListNoOut]
       /\ ListpeersAgain => ld'.out.response = ld.out.response]_vars

(* C27 amended: listpeers changes no peer or channel state, and the log     *)
(* book of a peer only by one "Overflow converting funding" entry at broken *)
(* severity for each listed channel whose funding does not convert to msat; *)
(* two consecutive calls with the same parameters return identical content  *)
(* when no listed peer has such a channel.                                  *)
C27_ListpeersLogsOverflow ==
    [][/\ ListpeersStep =>
            /\ ld'.channels = ld.channels
            /\ ld'.known = ld.known
            /\ ld'.uncommitted = ld.uncommitted
            /\ \A p \in {"p1", "p2"} :
                  LET n == IF p \in Listed(ld'.out.id)
                           THEN Cardinality(Overflowing(ld, p)) ELSE 0
                      old == ld.log_book[p]
                      new == ld'.log_book[p]
                  IN /\ Len(new) = Len(old) + n
                     /\ SubSeq(new, 1, Len(old)) = old
                     /\ \A i \in Len(old) + 1..Len(new) :
                           new[i] = [level |-> "broken",
                                     msg |-> "Overflow converting funding"]
       /\ (ListpeersAgain /\ \A p \in Listed(ld'.out.id) : Overflowing(ld, p) = {})
             => ld'.out.response = ld.out.response]_vars

\* all peers were listed with their logs from debug up, after a payment had
\* been logged, and no funding overflows
C27_Witness ==
    /\ ld.out.op = "listpeers"
    /\ ld.out.id = NULL
    /\ ld.out.level = "debug"
    /\ Len(ld.out.response) = 2
    /\ Len(ld.out.response[1].log) = 2
    /\ ld.out.response[1].channels # <<>>
    /\ \A p \in {"p1", "p2"} : Overflowing(ld, p) = {}

\* the msat value of the reserves in ReserveValues that have one
ReserveMsat(sat) ==
    IF sat = <<0, 0, 0, 1000>> THEN <<0, 0, 15, 16960>>
    ELSE IF sat = <<0, 0, 0, 10000>> THEN <<0, 0, 152, 38528>>
    ELSE IF sat = MaxSatForMsat THEN <<Limb - 1, Limb - 1, Limb - 1, 64920>>
    ELSE Zero64

(* C30: the spendable amount reported for a channel is our balance in msat  *)
(* minus their config's channel_reserve in msat when the reserve converts   *)
(* and is no more than the balance, and 0 otherwise; it never exceeds the   *)
(* balance.                                                                 *)
C30_Spendable ==
    ld.out.op = "listpeers" =>
        \A i \in 1..Len(ld.out.response) :
            \A j \in 1..Len(ld.out.response[i].channels) :
                LET o == ld.out.response[i].channels[j]
                    converts == LimbLeq(o.our_reserve, MaxSatForMsat)
                    r == ReserveMsat(o.our_reserve)
                IN /\ IF converts /\ LimbLeq(r, o.to_us_msat)
                      THEN LimbAdd(o.spendable_msat, r) =
                               [ok |-> TRUE, val |-> o.to_us_msat]
                      ELSE o.spendable_msat = Zero64
                   /\ LimbLeq(o.spendable_msat, o.to_us_msat)
                   /\ \A k \in 1..4 : o.spendable_msat[k] \in 0..(Limb - 1)

\* a balance of 5000000 msat under a reserve of 1000 satoshi is reported
\* with 4000000 msat spendable
C30_Witness ==
    /\ ld.out.op = "listpeers"
    /\ \E i \in 1..Len(ld.out.response) :
          /\ ld.out.response[i].channels # <<>>
          /\ ld.out.response[i].channels[1].to_us_msat = <<0, 0, 76, 19264>>
          /\ ld.out.response[i].channels[1].our_reserve = <<0, 0, 0, 1000>>
          /\ ld.out.response[i].channels[1].spendable_msat = <<0, 0, 61, 2304>>

(* ======================================================================= *)
(*            RPC connections (struct command, jsonrpc.h)                  *)
(* ======================================================================= *)
(* ld.jcon_closed holds the commands whose cmd->jcon has become NULL: the  *)
(* connection that issued them is gone.                                    *)

\* closing the connection taking its commands with it
destroy_jcon_frees_commands(s, k) ==
    [tal_free_cmd(s, k) EXCEPT !.jcon_closed = @ \cup {k}]

\* the connection closes: cmd->jcon = NULL for its commands, which are
\* children of ld->rpc and stay
destroy_jcon(s, k) == [s EXCEPT !.jcon_closed = @ \cup {k}]

JconInit ==
    \E st \in [Chans -> InitStates], fut \in [Chans -> BOOLEAN] :
        /\ \A c \in Chans : ChanPeer(c) \notin ConnectingPeers
                               => /\ st[c] # "CHANNELD_AWAITING_LOCKIN"
                                  /\ ~fut[c]
        /\ ld = InitLd(st, fut) @@ [jcon_closed |-> {}]

\* the RPC client of pending command k goes away
JconClosed ==
    /\ ld.aborted = NULL
    /\ \E k \in Cmds :
        /\ ld.cmd[k].status = "pending"
        /\ k \notin ld.jcon_closed
        /\ commit(destroy_jcon(begin(ld, "destroy_jcon", ld.cc[k].channel, k), k))

JconNext ==
    \/ JsonClose
    \/ JconClosed
    \/ TimerExpired
    \/ FundingSpent
    \/ ProcessDevForgetChannel

JconSpec == JconInit /\ [][JconNext]_vars

\* close command k is on the list, with its timer and its callback on the
\* channel
FullyRegistered(s, k) ==
    /\ s.cc[k].alive
    /\ k \in Range(s.close_commands)
    /\ k \in s.timers
    /\ s.cc[k].channel # NULL
    /\ k \in Range(s.destructors[s.cc[k].channel])

\* a command whose connection is gone is pending and registered, or has been
\* completed once
DroppedSafe(s) ==
    \A k \in s.jcon_closed :
        /\ s.cmd[k].status \in {"pending", "success", "failed"}
        /\ s.cmd[k].status = "pending" => FullyRegistered(s, k) /\ s.cmd[k].ndone = 0
        /\ s.cmd[k].status # "pending" => s.cmd[k].ndone = 1

(* C28: a pending close command whose RPC connection is dropped is not      *)
(* cancelled: the drop makes its connection null and changes nothing else,  *)
(* the close command record, its timer and its channel-destroy callback     *)
(* stay registered for as long as it is pending, and it is completed once   *)
(* only: when its timer fires at the latest, by a forced unilateral close   *)
(* if it was a close with force.                                            *)
C28_DroppedStillCompletes ==
    [][/\ \A k \in Cmds :
            (ld'.out.op = "destroy_jcon" /\ ld'.out.cmd = k)
               => /\ k \in ld'.jcon_closed
                  /\ ld'.cmd[k].status = "pending"
                  /\ FullyRegistered(ld', k)
                  /\ [ld' EXCEPT !.out = NoOut, !.jcon_closed = {}]
                       = [ld EXCEPT !.out = NoOut, !.jcon_closed = {}]
       /\ DroppedSafe(ld')
       /\ \A k \in ld.jcon_closed :
            (/\ ld.cmd[k].status = "pending"
             /\ ld'.out.op = "close_command_timeout" /\ ld'.out.cmd = k
             /\ ld'.aborted = NULL)
               => /\ ld'.cmd[k].ndone = 1
                  /\ ~ld'.cc[k].alive
                  /\ IF ld.cc[k].force
                     THEN /\ ld'.cmd[k].status = "success"
                          /\ ld'.out.fail_perm # <<>>
                          /\ ld'.out.dtc # <<>>
                     ELSE ld'.cmd[k].status = "failed"]_vars

\* a forced close whose client had gone was completed by its timeout as a
\* unilateral close
C28_Witness ==
    /\ ld.aborted = NULL
    /\ ld.out.op = "close_command_timeout"
    /\ ld.out.cmd \in ld.jcon_closed
    /\ ld.cmd[ld.out.cmd].status = "success"
    /\ ld.out.dtc # <<>>
    /\ ld.out.bcast # <<>>

(* ======================================================================= *)
(*                     invoices (wallet/invoices.c)                        *)
(* ======================================================================= *)
(* ld is the invoices table and the db variable next_pay_index; ld.paid is *)
(* the order in which invoices were resolved.                              *)

MaxInvoices == 3
InvoiceIds == 1..MaxInvoices

NoInvoice == [state |-> "NONE", pay_index |-> NULL]

db_get_intvar(s, var, defval) ==
    IF var \in DOMAIN s.db THEN s.db[var] ELSE defval

db_set_intvar(s, var, val) == [s EXCEPT !.db[var] = val]

\* reading the counter without advancing it
get_next_pay_index_no_increment(s) ==
    LET next_pay_index == db_get_intvar(s, "next_pay_index", 0)
    IN IF ~(next_pay_index > 0)
       THEN [s |-> abort_(s, "assert(next_pay_index > 0)"), val |-> 0]
       ELSE [s |-> s, val |-> next_pay_index]

\* next_pay_index++
get_next_pay_index(s) ==
    LET next_pay_index == db_get_intvar(s, "next_pay_index", 0)
    IN IF ~(next_pay_index > 0)
       THEN [s |-> abort_(s, "assert(next_pay_index > 0)"), val |-> 0]
       ELSE [s |-> db_set_intvar(s, "next_pay_index", next_pay_index + 1),
             val |-> next_pay_index]

invoice_get_status(s, id) == s.invoices[id].state

invoices_resolve(s, id) ==
    IF invoice_get_status(s, id) # "UNPAID"
    THEN abort_(s, "assert(state == UNPAID)")
    ELSE LET r == get_next_pay_index(s)
         IN IF r.s.aborted # NULL THEN r.s
            ELSE [r.s EXCEPT !.invoices[id] = [state |-> "PAID", pay_index |-> r.val],
                             !.paid = Append(@, [id |-> id, pay_index |-> r.val]),
                             !.out.waiters = Append(@, id)]

\* the row goes into the table unpaid, with no pay_index
invoices_create(s, id) ==
    [s EXCEPT !.invoices[id] = [state |-> "UNPAID", pay_index |-> NULL]]

\* the unpaid invoices among ids have reached their expiry time
update_db_expirations(s, ids) ==
    [s EXCEPT !.invoices = [i \in InvoiceIds |->
                               IF i \in ids /\ @[i].state = "UNPAID"
                               THEN [@[i] EXCEPT !.state = "EXPIRED"]
                               ELSE @[i]]]

invoices_delete(s, id) ==
    IF s.invoices[id].state = "NONE" THEN s
    ELSE [s EXCEPT !.invoices[id] = NoInvoice, !.out.waiters = Append(@, id)]

InvNoOut == [op |-> "init", id |-> 0, waiters |-> <<>>]

\* a new database has next_pay_index = 1; one with history has it further on
InvInit ==
    \E start \in {1, 4} :
        ld = [db |-> [next_pay_index |-> start],
              invoices |-> [i \in InvoiceIds |-> NoInvoice],
              nextid |-> 1,
              paid |-> <<>>,
              aborted |-> NULL,
              out |-> InvNoOut]

InvBegin(op, id) == [ld EXCEPT !.out = [InvNoOut EXCEPT !.op = op, !.id = id]]

InvoicesCreate ==
    /\ ld.aborted = NULL
    /\ ld.nextid <= MaxInvoices
    /\ ld' = [invoices_create(InvBegin("invoices_create", ld.nextid), ld.nextid)
                 EXCEPT !.nextid = @ + 1]

InvoicesResolve ==
    /\ ld.aborted = NULL
    /\ \E id \in InvoiceIds :
        /\ ld.invoices[id].state # "NONE"
        /\ LET s == invoices_resolve(InvBegin("invoices_resolve", id), id)
           IN ld' = IF s.aborted # NULL
                    THEN [ld EXCEPT !.aborted = s.aborted,
                                    !.out = [InvNoOut EXCEPT !.op = "invoices_resolve",
                                                             !.id = id]]
                    ELSE s

InvoicesExpire ==
    /\ ld.aborted = NULL
    /\ \E id \in InvoiceIds :
        /\ ld.invoices[id].state = "UNPAID"
        /\ ld' = update_db_expirations(InvBegin("update_db_expirations", id), {id})

InvoicesDelete ==
    /\ ld.aborted = NULL
    /\ \E id \in InvoiceIds :
        /\ ld.invoices[id].state # "NONE"
        /\ ld' = invoices_delete(InvBegin("invoices_delete", id), id)

InvNext ==
    \/ InvoicesCreate
    \/ InvoicesResolve
    \/ InvoicesExpire
    \/ InvoicesDelete

InvSpec == InvInit /\ [][InvNext]_vars

\* the pay indexes given out so far are distinct and grow in the order of
\* resolution, and the counter is beyond all of them
PayIndexesOrdered(s) ==
    /\ \A i, j \in 1..Len(s.paid) :
          i < j => s.paid[i].pay_index < s.paid[j].pay_index
    /\ \A i \in 1..Len(s.paid) : s.paid[i].pay_index < s.db.next_pay_index
    /\ \A a, b \in InvoiceIds :
          (a # b /\ s.invoices[a].state = "PAID" /\ s.invoices[b].state = "PAID")
             => s.invoices[a].pay_index # s.invoices[b].pay_index
    /\ s.db.next_pay_index > 0

(* C29: each invoices_resolve gives the invoice the current value of the    *)
(* persisted next_pay_index and adds exactly one to the counter; the pay    *)
(* indexes of paid invoices are pairwise distinct and strictly increasing   *)
(* in resolution order, and the counter never decreases and is positive.    *)
C29_PayIndexMonotonic ==
    [][/\ (ld'.out.op = "invoices_resolve" /\ ld'.aborted = NULL)
            => /\ ld'.invoices[ld'.out.id] =
                     [state |-> "PAID", pay_index |-> ld.db.next_pay_index]
               /\ ld'.db.next_pay_index = ld.db.next_pay_index + 1
               /\ \A i \in InvoiceIds \ {ld'.out.id} :
                     ld'.invoices[i] = ld.invoices[i]
       /\ ld'.out.op # "invoices_resolve"
            => ld'.db.next_pay_index = ld.db.next_pay_index
       /\ ld'.db.next_pay_index >= ld.db.next_pay_index
       /\ PayIndexesOrdered(ld')]_vars

\* three invoices were resolved, the second was deleted afterwards, and the
\* two that are left carry the first and the third index given out
C29_Witness ==
    /\ ld.aborted = NULL
    /\ Len(ld.paid) = 3
    /\ Cardinality({i \in InvoiceIds : ld.invoices[i].state = "PAID"}) = 2
    /\ \E a, b \in InvoiceIds :
          /\ ld.invoices[a].state = "PAID" /\ ld.invoices[b].state = "PAID"
          /\ ld.invoices[b].pay_index = ld.invoices[a].pay_index + 2
    /\ ld.db.next_pay_index = ld.paid[1].pay_index + 3

(* ======================================================================= *)
(*                 ownership at the reconnect dispatch                     *)
(* ======================================================================= *)

\* step: the dispatch of a connection of peer p starts a worker of kind w
\* for channel c
DispatchStarts(p, c, w) ==
    /\ ld'.out.op \in {"peer_connected", "peer_connected_hook_cb"}
    /\ ld'.out.peer = p
    /\ ld'.out.workers # <<>>
    /\ ld'.out.workers[1].name = w
    /\ ld'.out.workers[1].chan = c

C32_ReorgReplacesScid ==
    [][\A c \in Chans :
          DepthStep(c) =>
            LET old == ld.channels[c].scid
                new == DepthLocated(c)
            IN /\ (ld'.out.depth > 0 /\ old.set /\ new.ok /\ old # new.scid)
                     => /\ ld'.channels[c].owner = NULL
                        /\ ld'.out.logs # <<>>
                        /\ ld'.out.fail_perm = <<>>
                        /\ ld'.channels[c].scid = new.scid
                        /\ ld'.out.saved = <<c>>
                        /\ ld'.out.result = "KEEP_WATCHING"
                        /\ ld'.watch
                        /\ ld'.out.subd_msgs = <<>>
                        /\ ld'.channels[c].state = ld.channels[c].state
                        /\ ld'.channels[c].error = ld.channels[c].error
               /\ (ld'.out.depth = 0 /\ old.set)
                     => /\ ld'.channels[c].scid = old
                        /\ ld'.out.saved = <<>>
                        /\ ld'.out.annotated = <<>>]_vars

\* a reorganisation was seen at the announce depth on a channel in normal
\* operation whose worker would have taken the depth: the worker is gone,
\* the id is the new one and the watch stays
C32_Witness ==
    /\ ld.out.op = "funding_depth_cb"
    /\ ld.out.depth >= ANNOUNCE_MIN_DEPTH
    /\ ld.out.depth >= ld.channels[DepthChan].minimum_depth
    /\ ld.out.told
    /\ ld.out.saved = <<DepthChan>>
    /\ ld.out.loc.blkheight = 101
    /\ ld.channels[DepthChan].scid = Scid(<<101, 2, FundingOutnum(DepthChan)>>)
    /\ ld.channels[DepthChan].owner = NULL
    /\ ld.channels[DepthChan].state = "CHANNELD_NORMAL"
    /\ ld.out.result = "KEEP_WATCHING"
    /\ ld.watch

(* ======================================================================= *)
(*                        the last one out (peers)                         *)
(* ======================================================================= *)

\* the states in which maybe_delete_peer is called on peer p: the channel
\* or the uncommitted channel that vanished is already off the peer
MaybeDeleteCalledIn(p) ==
    LET drop_chan(s) == [s EXCEPT !.channels =
                             [c \in Chans |-> IF ChanPeer(c) = p
                                              THEN [@[c] EXCEPT !.alive = FALSE]
                                              ELSE @[c]]]
        drop_uc(s) == [s EXCEPT !.peers[p].uncommitted_channel = FALSE]
    IN {ld, drop_chan(ld), drop_uc(ld), drop_uc(drop_chan(ld))}

\* what maybe_delete_peer makes of state s for peer p
MaybeDeleteCases(s, p) ==
    LET r == maybe_delete_peer(s, p)
        dbid == s.peers[p].dbid
    IN /\ r.aborted = s.aborted
       /\ r.channels = s.channels
       /\ \A q \in Peers \ {p} : r.peers[q] = s.peers[q] /\ r.payload[q] = s.payload[q]
       /\ r.db_peers = IF peer_has_channels(s, p) THEN s.db_peers
                       ELSE s.db_peers \ {dbid}
       /\ IF peer_has_channels(s, p) THEN r = s
          ELSE IF s.peers[p].uncommitted_channel
          THEN /\ r.peers[p] = [s.peers[p] EXCEPT !.dbid = 0]
               /\ r.payload = s.payload
          ELSE ~r.peers[p].exists

(* C33: maybe_delete_peer leaves a peer with a channel unchanged; a peer    *)
(* with no channel but an uncommitted channel stays in the registry, its    *)
(* database row is deleted and its dbid reset to 0; a peer with neither is  *)
(* removed and its row, if it has one, deleted; the assertions of           *)
(* delete_peer never fail.                                                  *)
C33_MaybeDeletePeer ==
    /\ 0 \notin ld.db_peers
    /\ ld.aborted \notin {"assert(list_empty(&peer->channels))"}
    /\ \A p \in Peers :
          ld.peers[p].exists =>
             \A s \in MaybeDeleteCalledIn(p) : MaybeDeleteCases(s, p)
    /\ \A p \in Peers :
          (ld.peers[p].exists /\ ~peer_has_channels(ld, p)
              /\ ld.peers[p].uncommitted_channel)
             => ld.peers[p].dbid = 0 /\ PeerDbid(p) \notin ld.db_peers
    /\ \A p \in Peers :
          ~ld.peers[p].exists
             => ~peer_has_channels(ld, p) /\ PeerDbid(p) \notin ld.db_peers

\* the only channel of a peer whose connection is with an opening worker was
\* forgotten: the peer is still there, without its row
C33_Witness ==
    /\ ld.aborted = NULL
    /\ ld.out.op = "dev-forget-channel"
    /\ \E p \in Peers :
          /\ ld.peers[p].exists
          /\ ld.peers[p].uncommitted_channel
          /\ ~peer_has_channels(ld, p)
          /\ ld.peers[p].dbid = 0
          /\ PeerDbid(p) \notin ld.db_peers

(* ======================================================================= *)
(*                    the walk of setchannelfee "all"                      *)
(* ======================================================================= *)

\* no element occurs twice in seq
NoRepeat(seq) == \A i, j \in 1..Len(seq) : seq[i] = seq[j] => i = j

(* C34: setchannelfee with id "all" returns for every content of the        *)
(* registry, whatever the order of a peer's channel list and also when all  *)
(* channels of a peer are inactive, and applies set_channel_fees at most    *)
(* once to a channel: each eligible channel is once in the response.        *)
C34_AllTerminatesOncePerChannel ==
    [][(/\ ld'.out.op = "setchannelfee"
        /\ ld'.out.id = "all"
        /\ FitsU32(ld'.out.base_msat))
          => /\ ld'.aborted = NULL
             /\ ld'.out.reply.kind = "success"
             /\ NoRepeat(ld'.out.channels)
             /\ NoRepeat(ld'.out.saved)
             /\ FeeTargets(ld) \subseteq Range(ld'.out.channels)]_vars

(* ======================================================================= *)
(*            invoice waiters and expiry (wallet/invoices.c)               *)
(* ======================================================================= *)
(* ld is struct invoices with its database table: next to the fields of    *)
(* the invoices model above it has the clock, the waiters list, every      *)
(* waiter that was allocated, min_expiry_time and the expiration timer.    *)
(* ld.out.cbs are the callbacks run by the last operation.                 *)

MaxTime == 1
MaxWaiters == 1
MaxWaitInvoices == 2
WaiterIds == 1..MaxWaiters
Expiries == {0, 1}

NoWaiter == [alive |-> FALSE, triggered |-> FALSE, any |-> FALSE, id |-> 0]
NoTimer == [set |-> FALSE, due |-> 0]

WaitNoOut == [op |-> "init", id |-> 0, waiters |-> <<>>, cbs |-> <<>>, added |-> 0,
              already |-> FALSE]

\* w->triggered = true; w->cb(invoice, w->cbarg)
trigger_invoice_waiter(s, w, id) ==
    [s EXCEPT !.w[w].triggered = TRUE,
              !.out.cbs = Append(@, [waiter |-> w, invoice |-> id,
                                     linked |-> w \in Range(s.waiters),
                                     again |-> s.w[w].triggered])]

\* list_del of a node that is in no list corrupts the list
list_del_from(s, w) ==
    IF w \notin Range(s.waiters) THEN abort_(s, "list_del of an unlinked waiter")
    ELSE [s EXCEPT !.waiters = SeqRemove(@, w)]

\* list_for_each_safe over the waiters as they stood when the walk began
RECURSIVE trigger_walk(_, _, _, _)
trigger_walk(s, lst, id, resolve) ==
    IF lst = <<>> \/ s.aborted # NULL THEN s
    ELSE LET w == Head(lst)
             skip == IF resolve THEN ~s.w[w].any /\ s.w[w].id # id
                     ELSE s.w[w].any \/ s.w[w].id # id
         IN IF skip THEN trigger_walk(s, Tail(lst), id, resolve)
            ELSE trigger_walk(trigger_invoice_waiter(list_del_from(s, w), w, id),
                              Tail(lst), id, resolve)

\* the walk for a paid invoice leaving the waiters for any invoice alone
trigger_invoice_waiter_resolve_only_specific(s, id) ==
    trigger_walk(s, s.waiters, id, FALSE)

trigger_invoice_waiter_resolve(s, id) == trigger_walk(s, s.waiters, id, TRUE)

trigger_invoice_waiter_expire_or_delete(s, id) == trigger_walk(s, s.waiters, id, FALSE)

\* the destructor unlinking the waiter whether it was triggered or not
destroy_invoice_waiter_always_unlinks(s, w) ==
    [list_del_from(s, w) EXCEPT !.w[w] = NoWaiter]

\* the destructor of a waiter, run when the waiter is freed
destroy_invoice_waiter(s, w) ==
    IF s.w[w].triggered THEN [s EXCEPT !.w[w] = NoWaiter, !.out.already = TRUE]
    ELSE [list_del_from(s, w) EXCEPT !.w[w] = NoWaiter]

add_invoice_waiter(s, w, any, id) ==
    [s EXCEPT !.w[w] = [alive |-> TRUE, triggered |-> FALSE, any |-> any,
                        id |-> id],
              !.waiters = Append(@, w),
              !.out.added = w]

\* the row has a pay_index: only invoices_resolve writes the column, with
\* the state PAID
pay_index_not_null(inv) == inv.state = "PAID"

\* SELECT id ... WHERE pay_index > ? ORDER BY pay_index ASC LIMIT 1
first_paid_after(s, lastpay_index) ==
    LET ids == {i \in InvoiceIds : /\ pay_index_not_null(s.invoices[i])
                                   /\ s.invoices[i].pay_index > lastpay_index}
    IN IF ids = {} THEN 0
       ELSE CHOOSE i \in ids : \A j \in ids :
                s.invoices[i].pay_index <= s.invoices[j].pay_index

\* the callback run at once, with no waiter
immediate_cb(s, id) ==
    [s EXCEPT !.out.cbs = Append(@, [waiter |-> 0, invoice |-> id,
                                     linked |-> FALSE, again |-> FALSE])]

invoices_waitany(s, w, lastpay_index) ==
    LET id == first_paid_after(s, lastpay_index)
    IN IF id # 0 THEN immediate_cb(s, id)
       ELSE add_invoice_waiter(s, w, TRUE, 0)

invoices_waitone(s, w, id) ==
    IF s.invoices[id].state = "NONE" THEN abort_(s, "assert(res)")
    ELSE IF invoice_get_status(s, id) \in {"PAID", "EXPIRED"}
    THEN immediate_cb(s, id)
    ELSE add_invoice_waiter(s, w, FALSE, id)

\* the unpaid invoices
Unpaid(s) == {i \in InvoiceIds : s.invoices[i].state = "UNPAID"}

\* WHERE state = UNPAID AND expiry_time <= now
Expiring(s, now) == {i \in Unpaid(s) : s.invoices[i].expiry_time <= now}

Min(S) == CHOOSE x \in S : \A y \in S : x <= y

\* install_expiration_timer arming the timer for the latest expiry
install_expiration_timer_latest(s) ==
    IF s.expiration_timer.set THEN abort_(s, "assert(!invoices->expiration_timer)")
    ELSE IF Unpaid(s) = {} THEN s
    ELSE LET m == CHOOSE x \in {s.invoices[i].expiry_time : i \in Unpaid(s)} :
                     \A i \in Unpaid(s) : s.invoices[i].expiry_time <= x
             expiry == IF s.now > m THEN s.now ELSE m
         IN [s EXCEPT !.min_expiry_time = m,
                      !.expiration_timer = [set |-> TRUE, due |-> expiry]]

install_expiration_timer(s) ==
    IF s.expiration_timer.set THEN abort_(s, "assert(!invoices->expiration_timer)")
    ELSE IF Unpaid(s) = {} THEN s
    ELSE LET m == Min({s.invoices[i].expiry_time : i \in Unpaid(s)})
             expiry == IF s.now > m THEN s.now ELSE m
         IN [s EXCEPT !.min_expiry_time = m,
                      !.expiration_timer = [set |-> TRUE, due |-> expiry]]

RECURSIVE trigger_expired(_, _)
trigger_expired(s, ids) ==
    IF ids = {} THEN s
    ELSE LET i == Min(ids)
         IN trigger_expired(
                trigger_invoice_waiter_expire_or_delete(
                    [s EXCEPT !.out.waiters = Append(@, i)], i),
                ids \ {i})

trigger_expiration(s) ==
    LET s0 == [s EXCEPT !.expiration_timer = NoTimer]
        ids == Expiring(s0, s0.now)
        s1 == update_db_expirations(s0, ids)
    IN install_expiration_timer(trigger_expired(s1, ids))

\* invoices_create with the expiry time and the timer
wait_invoices_create(s, id, expiry) ==
    LET expiry_time == s.now + expiry
        s1 == invoices_create(s, id)
        s2 == [s1 EXCEPT !.invoices[id] = @ @@ [expiry_time |-> expiry_time]]
    IN IF ~s2.expiration_timer.set \/ expiry_time < s2.min_expiry_time
       THEN install_expiration_timer([s2 EXCEPT !.expiration_timer = NoTimer])
       ELSE s2

\* invoices_resolve with its waiters; the order of resolution is not kept
wait_invoices_resolve(s, id) ==
    LET s1 == [invoices_resolve(s, id) EXCEPT !.paid = <<>>]
    IN IF s1.aborted # NULL THEN s1
       ELSE trigger_invoice_waiter_resolve(s1, id)

\* invoices_delete with its waiters
wait_invoices_delete(s, id) ==
    IF s.invoices[id].state = "NONE" THEN s
    ELSE trigger_invoice_waiter_expire_or_delete(invoices_delete(s, id), id)

\* invoices_new on a database that holds no invoice, or one unpaid invoice
\* that expired while the node was down, or one that has not expired
WaitInit ==
    \E start \in {1}, first \in {"none", "expired", "unpaid"} :
        LET row == IF first = "none" THEN NoInvoice
                   ELSE [state |-> "UNPAID", pay_index |-> NULL,
                         expiry_time |-> IF first = "expired" THEN 0 ELSE 1]
            s0 == [db |-> [next_pay_index |-> start],
                   invoices |-> [i \in InvoiceIds |-> IF i = 1 THEN row ELSE NoInvoice],
                   nextid |-> IF first = "none" THEN 1 ELSE 2,
                   paid |-> <<>>,
                   now |-> 0,
                   waiters |-> <<>>,
                   w |-> [x \in WaiterIds |-> NoWaiter],
                   nw |-> 1,
                   min_expiry_time |-> 0,
                   expiration_timer |-> NoTimer,
                   aborted |-> NULL,
                   out |-> WaitNoOut]
        IN ld = install_expiration_timer(
                    update_db_expirations(s0, Expiring(s0, s0.now)))

WaitBegin(op, id) == [ld EXCEPT !.out = [WaitNoOut EXCEPT !.op = op, !.id = id]]

WaitCommit(s) ==
    ld' = IF s.aborted # NULL
          THEN [ld EXCEPT !.aborted = s.aborted,
                          !.out = [WaitNoOut EXCEPT !.op = s.out.op, !.id = s.out.id]]
          ELSE s

WaitCreate ==
    /\ ld.aborted = NULL
    /\ ld.nextid <= MaxWaitInvoices
    /\ \E expiry \in Expiries :
        WaitCommit([wait_invoices_create(WaitBegin("invoices_create", ld.nextid),
                                         ld.nextid, expiry)
                       EXCEPT !.nextid = @ + 1])

\* a payment arrives for an unpaid invoice
WaitResolve ==
    /\ ld.aborted = NULL
    /\ \E id \in InvoiceIds :
        /\ ld.invoices[id].state = "UNPAID"
        /\ WaitCommit(wait_invoices_resolve(WaitBegin("invoices_resolve", id), id))

WaitDelete ==
    /\ ld.aborted = NULL
    /\ \E id \in InvoiceIds :
        /\ ld.invoices[id].state # "NONE"
        /\ WaitCommit(wait_invoices_delete(WaitBegin("invoices_delete", id), id))

\* the expiration timer fires, at its due time or later
TriggerExpiration ==
    /\ ld.aborted = NULL
    /\ ld.expiration_timer.set
    /\ ld.expiration_timer.due <= ld.now
    /\ WaitCommit(trigger_expiration(WaitBegin("trigger_expiration", 0)))

InvoicesWaitany ==
    /\ ld.aborted = NULL
    /\ ld.nw <= MaxWaiters
    /\ \E lastpay_index \in {0, 1} :
        LET s == invoices_waitany(WaitBegin("invoices_waitany", lastpay_index),
                                  ld.nw, lastpay_index)
        IN WaitCommit([s EXCEPT !.nw = IF s.out.added # 0 THEN @ + 1 ELSE @])

InvoicesWaitone ==
    /\ ld.aborted = NULL
    /\ ld.nw <= MaxWaiters
    /\ \E id \in InvoiceIds :
        /\ ld.invoices[id].state # "NONE"
        /\ LET s == invoices_waitone(WaitBegin("invoices_waitone", id), ld.nw, id)
           IN WaitCommit([s EXCEPT !.nw = IF s.out.added # 0 THEN @ + 1 ELSE @])

\* a waiter is freed: with the command that waits, or, once triggered, with
\* the temporary context it was moved to
WaiterFreed ==
    /\ ld.aborted = NULL
    /\ \E w \in WaiterIds :
        /\ ld.w[w].alive
        /\ WaitCommit(destroy_invoice_waiter(WaitBegin("destroy_invoice_waiter", w), w))

\* the clock
Tick ==
    /\ ld.aborted = NULL
    /\ ld.now < MaxTime
    /\ ld' = [WaitBegin("tick", 0) EXCEPT !.now = @ + 1]

WaitNext ==
    \/ WaitCreate
    \/ WaitResolve
    \/ WaitDelete
    \/ TriggerExpiration
    \/ InvoicesWaitany
    \/ InvoicesWaitone
    \/ WaiterFreed
    \/ Tick

WaitSpec == WaitInit /\ [][WaitNext]_vars

\* the waiters called back by the step, and with which invoice
CalledBack(w) == \E k \in 1..Len(ld'.out.cbs) : ld'.out.cbs[k].waiter = w

CalledWith(w, id) ==
    \E k \in 1..Len(ld'.out.cbs) :
        ld'.out.cbs[k].waiter = w /\ ld'.out.cbs[k].invoice = id

\* the waiters list holds each waiter once, all of them allocated and not
\* triggered, and every allocated waiter that is not triggered is in it
WaitersListed(s) ==
    /\ NoRepeat(s.waiters)
    /\ \A w \in WaiterIds :
          w \in Range(s.waiters) <=> (s.w[w].alive /\ ~s.w[w].triggered)

(* C35: the callback of an invoice waiter is run at most once: the waiter   *)
(* is off the waiters list and marked triggered when its callback runs, the *)
(* list never holds a triggered waiter, and freeing a waiter unlinks it     *)
(* exactly when it was not triggered, so that no waiter is unlinked twice.  *)
C35_WaiterCalledOnce ==
    [][/\ ld'.aborted # "list_del of an unlinked waiter"
       /\ WaitersListed(ld')
       /\ \A k \in 1..Len(ld'.out.cbs) :
             LET cb == ld'.out.cbs[k] IN
             cb.waiter # 0
                => /\ ~cb.linked
                   /\ ~cb.again
                   /\ cb.waiter \in Range(ld.waiters)
                   /\ ld'.w[cb.waiter].triggered
                   /\ \A j \in 1..Len(ld'.out.cbs) :
                         ld'.out.cbs[j].waiter = cb.waiter => j = k
       /\ \A w \in WaiterIds :
             (ld'.out.op = "destroy_invoice_waiter" /\ ld'.out.id = w
                 /\ ld'.aborted = NULL)
                => /\ ~ld'.w[w].alive
                   /\ ld'.out.already = ld.w[w].triggered
                   /\ ld'.out.cbs = <<>>
                   /\ ld'.waiters = IF ld.w[w].triggered THEN ld.waiters
                                    ELSE SeqRemove(ld.waiters, w)
                   /\ ~ld.w[w].triggered => w \in Range(ld.waiters)]_vars

\* a waiter that had its callback was freed afterwards: nothing was unlinked
\* and the list is as it was
C35_Witness ==
    /\ ld.aborted = NULL
    /\ ld.out.op = "destroy_invoice_waiter"
    /\ ld.out.already
    /\ \E w \in WaiterIds : ld.out.id = w /\ ~ld.w[w].alive /\ ld.nw > w
    /\ \E i \in InvoiceIds : ld.invoices[i].state = "PAID"

\* the invoices the step paid, expired or deleted
Settled ==
    IF ld'.out.op \in {"invoices_resolve", "invoices_delete"} THEN {ld'.out.id}
    ELSE IF ld'.out.op = "trigger_expiration" THEN Range(ld'.out.waiters)
    ELSE {}

(* C36: invoices_waitany(lastpay_index) runs the callback at once, with the *)
(* paid invoice of smallest pay_index above lastpay_index, and registers no *)
(* waiter when there is such an invoice; otherwise it registers a waiter,   *)
(* which the next invoices_resolve of any invoice triggers and which no     *)
(* expiry or deletion triggers.  invoices_waitone on an UNPAID invoice      *)
(* registers a waiter that only the payment, expiry or deletion of that     *)
(* invoice triggers.                                                        *)
C36_WaitanyWaitone ==
    [][ld'.aborted = NULL =>
       /\ ld'.out.op = "invoices_waitany"
             => LET above == {i \in InvoiceIds :
                                 /\ ld.invoices[i].state = "PAID"
                                 /\ ld.invoices[i].pay_index > ld'.out.id}
                IN IF above # {}
                   THEN /\ Len(ld'.out.cbs) = 1
                        /\ ld'.out.cbs[1].waiter = 0
                        /\ ld'.out.cbs[1].invoice \in above
                        /\ \A j \in above :
                              ld.invoices[ld'.out.cbs[1].invoice].pay_index
                                 <= ld.invoices[j].pay_index
                        /\ ld'.out.added = 0
                        /\ ld'.waiters = ld.waiters /\ ld'.w = ld.w
                   ELSE /\ ld'.out.cbs = <<>>
                        /\ ld'.out.added = ld.nw
                        /\ ld'.waiters = Append(ld.waiters, ld.nw)
                        /\ ld'.w[ld.nw] = [alive |-> TRUE, triggered |-> FALSE,
                                           any |-> TRUE, id |-> 0]
       /\ ld'.out.op = "invoices_waitone"
             => IF ld.invoices[ld'.out.id].state = "UNPAID"
                THEN /\ ld'.out.cbs = <<>>
                     /\ ld'.waiters = Append(ld.waiters, ld.nw)
                     /\ ld'.w[ld.nw] = [alive |-> TRUE, triggered |-> FALSE,
                                        any |-> FALSE, id |-> ld'.out.id]
                ELSE /\ ld'.out.cbs = <<[waiter |-> 0, invoice |-> ld'.out.id,
                                         linked |-> FALSE, again |-> FALSE]>>
                     /\ ld'.waiters = ld.waiters
       /\ \A w \in Range(ld.waiters) :
             IF ld.w[w].any
             THEN /\ CalledBack(w) <=> ld'.out.op = "invoices_resolve"
                  /\ CalledBack(w) => CalledWith(w, ld'.out.id)
                  /\ (ld'.out.op \in {"invoices_delete", "trigger_expiration"})
                        => w \in Range(ld'.waiters)
             ELSE /\ CalledBack(w) <=> ld.w[w].id \in Settled
                  /\ CalledBack(w) => CalledWith(w, ld.w[w].id)]_vars

\* a waiter for any invoice, registered because nothing was paid above the
\* index asked for, was triggered by a payment
C36_Witness ==
    /\ ld.aborted = NULL
    /\ ld.out.op = "invoices_resolve"
    /\ \E w \in WaiterIds :
          /\ ld.w[w].alive /\ ld.w[w].any /\ ld.w[w].triggered
          /\ ld.out.cbs = <<[waiter |-> w, invoice |-> ld.out.id,
                             linked |-> FALSE, again |-> FALSE]>>
    /\ ld.invoices[ld.out.id].state = "PAID"

\* waitany found a paid invoice above the index and called back at once
C36_ImmediateReached ==
    /\ ld.out.op = "invoices_waitany"
    /\ ld.out.id = 1
    /\ ld.out.cbs # <<>>
    /\ ld.out.added = 0

\* while some invoice is unpaid the timer is armed, for no later than the
\* earliest expiry among the unpaid
TimerCoversUnpaid(s) ==
    Unpaid(s) # {}
       => /\ s.expiration_timer.set
          /\ \A i \in Unpaid(s) : s.expiration_timer.due <= s.invoices[i].expiry_time

(* C37: whenever an invoice is UNPAID the expiration timer is pending and   *)
(* due no later than the smallest expiry_time among the UNPAID invoices;    *)
(* when the timer fires every UNPAID invoice whose expiry_time has passed   *)
(* becomes EXPIRED and the waiters on that invoice are triggered, so an     *)
(* unpaid invoice past its expiry always has the timer due.                 *)
C37_ExpiryTimerArmed ==
    [][/\ ld'.aborted # "assert(!invoices->expiration_timer)"
       /\ TimerCoversUnpaid(ld')
       /\ \A i \in Unpaid(ld') :
             ld'.invoices[i].expiry_time <= ld'.now
                => ld'.expiration_timer.set /\ ld'.expiration_timer.due <= ld'.now
       /\ ld'.out.op = "trigger_expiration"
             => /\ ld'.aborted = NULL
                /\ \A i \in InvoiceIds :
                      ld'.invoices[i].state =
                         IF i \in Expiring(ld, ld.now) THEN "EXPIRED"
                         ELSE ld.invoices[i].state
                /\ Expiring(ld', ld'.now) = {}
                /\ \A w \in Range(ld.waiters) :
                      (~ld.w[w].any /\ ld.w[w].id \in Expiring(ld, ld.now))
                         => CalledWith(w, ld.w[w].id)]_vars

\* the timer fired after the clock passed the expiry of an unpaid invoice:
\* the invoice is expired, its waiter was called, and the timer is armed
\* again for the invoice that is still unpaid
C37_Witness ==
    /\ ld.aborted = NULL
    /\ ld.out.op = "trigger_expiration"
    /\ ld.out.cbs # <<>>
    /\ \E i \in InvoiceIds :
          /\ ld.invoices[i].state = "EXPIRED"
          /\ ld.invoices[i].expiry_time < ld.now
          /\ ld.out.cbs[1].invoice = i
    /\ Unpaid(ld) # {}
    /\ ld.expiration_timer.set

\* The timer fires when it is due.
ExpiryFairSpec == WaitSpec /\ WF_vars(TriggerExpiration)

\* under ExpiryFairSpec an unpaid invoice whose expiry has passed does not
\* stay unpaid: it expires, is paid or is deleted
ExpiredEventually ==
    \A i \in InvoiceIds :
        (ld.invoices[i].state = "UNPAID" /\ ld.invoices[i].expiry_time <= ld.now)
           ~> (ld.invoices[i].state # "UNPAID")

\* ---------------------------------------------------------------------
\* gossip store reader (common/gossip_store.c)
\* ---------------------------------------------------------------------

\* the records the store may hold at most
MaxStore == 2

\* a u32 is <<high 16 bits, low 16 bits>>
U32Zero == <<0, 0>>

UINT32_MAX == <<Limb - 1, Limb - 1>>

\* a <= b on 32 bits
U32Leq(a, b) == a[1] < b[1] \/ (a[1] = b[1] /\ a[2] <= b[2])

\* a + b on 32 bits; carry is what left the 32 bits
U32Add(a, b) ==
    LET lo == a[2] + b[2]
        hi == a[1] + b[1] + lo \div Limb
    IN [carry |-> hi \div Limb, val |-> <<hi % Limb, lo % Limb>>]

\* a - 1 on 32 bits
U32Dec(a) ==
    IF a[2] > 0 THEN <<a[1], a[2] - 1>>
    ELSE IF a[1] > 0 THEN <<a[1] - 1, Limb - 1>>
    ELSE UINT32_MAX

\* the values a gossip_timestamp_filter message may carry
FirstTimestamps == {U32Zero, <<0, 1000>>, <<Limb - 1, Limb - 10>>}

TimestampRanges == {U32Zero, <<0, 1>>, <<0, 1001>>, UINT32_MAX}

\* the timestamps the filter is asked about
TimestampSamples ==
    {U32Zero, <<0, 999>>, <<0, 1000>>, <<0, 1001>>, <<0, 2000>>, <<0, 2001>>,
     <<1, 0>>, <<Limb - 1, Limb - 11>>, <<Limb - 1, Limb - 10>>, UINT32_MAX}

\* sizeof(struct gossip_hdr): be32 len, crc and timestamp
GOSSIP_HDR_SIZE == 12

\* whence of lseek, as <unistd.h> numbers them
SEEK_SET == 0

SEEK_CUR == 1

SEEK_END == 2

PeerWireTypes ==
    {"WIRE_CHANNEL_ANNOUNCEMENT", "WIRE_CHANNEL_UPDATE", "WIRE_NODE_ANNOUNCEMENT"}

\* what gossipd writes: a message with its length, timestamp and deleted bit
StoreRecords ==
    {[type |-> "WIRE_CHANNEL_ANNOUNCEMENT", len |-> 2, timestamp |-> <<0, 1000>>,
      deleted |-> FALSE],
     [type |-> "WIRE_CHANNEL_UPDATE", len |-> 5, timestamp |-> <<0, 2000>>,
      deleted |-> FALSE],
     [type |-> "WIRE_NODE_ANNOUNCEMENT", len |-> 5, timestamp |-> <<0, 1000>>,
      deleted |-> FALSE],
     [type |-> "WIRE_GOSSIPD_LOCAL_ADD_CHANNEL", len |-> 2, timestamp |-> <<0, 2000>>,
      deleted |-> FALSE]}

\* the offset at which record k of the store starts (k = Len + 1: its end)
RECURSIVE RecStart(_, _)
RecStart(store, k) ==
    IF k <= 1 THEN 1
    ELSE RecStart(store, k - 1) + GOSSIP_HDR_SIZE + store[k - 1].len

StoreEnd(store) == RecStart(store, Len(store) + 1)

\* the record that starts at this offset, 0 when none does
RecordAt(store, off) ==
    IF \E k \in 1..Len(store) : RecStart(store, k) = off
    THEN CHOOSE k \in 1..Len(store) : RecStart(store, k) = off
    ELSE 0

\* lseek(fd, offset, whence) on a file that ends at end: the new offset
lseek(cur, end, offset, whence) ==
    IF whence = SEEK_SET THEN offset
    ELSE IF whence = SEEK_CUR THEN cur + offset
    ELSE end + offset

NoGs == [set |-> FALSE, timestamp_min |-> U32Zero, timestamp_max |-> U32Zero]

GossipNoOut ==
    [op |-> "none", ret |-> 0, reads |-> 0, from |-> 0, first |-> U32Zero,
     range |-> U32Zero, shorter |-> 0, closed |-> FALSE]

gossip_setup_timestamp_filter(s, first_timestamp, timestamp_range) ==
    LET max == U32Dec(U32Add(first_timestamp, timestamp_range).val)
    IN [s EXCEPT !.gs = [set |-> TRUE, timestamp_min |-> first_timestamp,
                         timestamp_max |->
                             IF ~U32Leq(first_timestamp, max) THEN UINT32_MAX
                             ELSE max],
                 !.fd_off = lseek(s.fd_off, StoreEnd(s.store), 1, SEEK_SET),
                 !.out.first = first_timestamp,
                 !.out.range = timestamp_range]

timestamp_filter(s, timestamp) ==
    U32Leq(s.gs.timestamp_min, timestamp) /\ U32Leq(timestamp, s.gs.timestamp_max)

\* the while loop of gossip_store_next, one record a round
RECURSIVE gossip_store_next_loop(_)
gossip_store_next_loop(s) ==
    LET k == RecordAt(s.store, s.fd_off)
        rec == s.store[k]
        past == [s EXCEPT !.fd_off = @ + GOSSIP_HDR_SIZE + rec.len,
                          !.out.reads = @ + 1]
    IN IF k = 0
       THEN IF s.fd_off >= StoreEnd(s.store)
            THEN [s EXCEPT !.out.ret = 0]
            ELSE [s EXCEPT !.aborted = "gossip_store: bad checksum"]
       ELSE IF rec.deleted THEN gossip_store_next_loop(past)
       ELSE IF rec.type \notin PeerWireTypes THEN gossip_store_next_loop(past)
       ELSE IF ~timestamp_filter(s, rec.timestamp) THEN gossip_store_next_loop(past)
       ELSE [past EXCEPT !.out.ret = k]

gossip_store_next_reads_unset(s) ==
    gossip_store_next_loop(s)

gossip_store_next(s) ==
    IF ~s.gs.set THEN [s EXCEPT !.out.ret = 0]
    ELSE gossip_store_next_loop(s)

\* the while loop of gossip_store_switch_fd: skip records of the new store
\* until cur reaches target
RECURSIVE switch_fd_skip(_, _, _)
switch_fd_skip(newstore, cur, target) ==
    IF cur < target
    THEN LET k == RecordAt(newstore, cur)
         IN IF k = 0 THEN [ok |-> FALSE, off |-> cur]
            ELSE switch_fd_skip(newstore,
                                lseek(cur + GOSSIP_HDR_SIZE, StoreEnd(newstore),
                                      newstore[k].len, SEEK_CUR),
                                target)
    ELSE [ok |-> TRUE, off |-> cur]

\* newfd is open on newstore at offset 1
gossip_store_switch_fd(s, newstore, offset_shorter) ==
    LET old_end == StoreEnd(s.store)
        cur == lseek(s.fd_off, old_end, SEEK_CUR, 0)
        end == lseek(cur, old_end, SEEK_END, 0)
        skipped == switch_fd_skip(newstore, 1, cur - offset_shorter)
        t == [s EXCEPT !.out.from = s.fd_off,
                       !.out.shorter = offset_shorter]
        switched(off) == [t EXCEPT !.store = newstore, !.fd_off = off,
                                   !.out.closed = TRUE]
    IN IF cur = end
       THEN IF ~(cur > offset_shorter)
            THEN [t EXCEPT !.aborted = "assert(cur > offset_shorter)"]
            ELSE switched(lseek(1, StoreEnd(newstore), cur - offset_shorter, SEEK_SET))
       ELSE IF cur > offset_shorter
       THEN IF ~skipped.ok
            THEN [t EXCEPT !.aborted = "gossip_store: can't read hdr in new store"]
            ELSE switched(skipped.off)
       ELSE switched(1)

\* gossipd's compaction: the store without its deleted records
RECURSIVE Compacted(_)
Compacted(store) ==
    IF store = <<>> THEN <<>>
    ELSE IF Head(store).deleted THEN Compacted(Tail(store))
    ELSE <<Head(store)>> \o Compacted(Tail(store))

GossipInit ==
    \E n \in 0..1 :
        \E store \in [1..n -> StoreRecords] :
            ld = [store |-> store, fd_off |-> 1, gs |-> NoGs, out |-> GossipNoOut,
                  aborted |-> NULL]

GossipBegin(op) == [ld EXCEPT !.out = [GossipNoOut EXCEPT !.op = op]]

GossipCommit(s) == ld.aborted = NULL /\ ld' = s

\* a gossip_timestamp_filter message arrives from the peer
GossipSetupTimestampFilter ==
    \E first \in FirstTimestamps, range \in TimestampRanges :
        GossipCommit(gossip_setup_timestamp_filter(GossipBegin("setup"), first, range))

GossipStoreNext == GossipCommit(gossip_store_next(GossipBegin("next")))

\* gossipd appends a record to the store
StoreAppend ==
    /\ Len(ld.store) < MaxStore
    /\ \E rec \in StoreRecords :
           GossipCommit([GossipBegin("append") EXCEPT !.store = Append(@, rec)])

\* gossipd marks a record deleted in place
StoreDelete ==
    \E k \in 1..Len(ld.store) :
        /\ ~ld.store[k].deleted
        /\ GossipCommit([GossipBegin("delete") EXCEPT !.store[k].deleted = TRUE])

\* gossipd has compacted the store and hands over the new descriptor
GossipStoreSwitchFd ==
    LET newstore == Compacted(ld.store)
    IN GossipCommit(gossip_store_switch_fd(GossipBegin("switch"), newstore,
                                           StoreEnd(ld.store) - StoreEnd(newstore)))

GossipNext ==
    \/ GossipSetupTimestampFilter
    \/ GossipStoreNext
    \/ StoreAppend
    \/ StoreDelete
    \/ GossipStoreSwitchFd

GossipSpec == GossipInit /\ [][GossipNext]_vars

\* ts < first + range, the sum taken without wraparound
BelowSum(ts, first, range) ==
    LET sum == U32Add(first, range)
    IN sum.carry > 0 \/ (ts # sum.val /\ U32Leq(ts, sum.val))

\* C38: after gossip_setup_timestamp_filter(first_timestamp, timestamp_range)
\* timestamp_min <= timestamp_max, and a timestamp passes timestamp_filter
\* exactly when first_timestamp <= timestamp < first_timestamp +
\* timestamp_range, for every input, timestamp_range = 0 and sums above
\* 2^32 - 1 included.
C38_FilterIsHalfOpenRange ==
    ld.out.op = "setup" =>
        /\ U32Leq(ld.gs.timestamp_min, ld.gs.timestamp_max)
        /\ \A ts \in TimestampSamples :
               timestamp_filter(ld, ts)
                   <=> (U32Leq(ld.out.first, ts)
                        /\ BelowSum(ts, ld.out.first, ld.out.range))

\* the part of C38 that holds: the same with timestamp_range = 0 left out
C38_NonEmptyRangeAsClaimed ==
    (ld.out.op = "setup" /\ ld.out.range # U32Zero) =>
        /\ U32Leq(ld.gs.timestamp_min, ld.gs.timestamp_max)
        /\ \A ts \in TimestampSamples :
               timestamp_filter(ld, ts)
                   <=> (U32Leq(ld.out.first, ts)
                        /\ BelowSum(ts, ld.out.first, ld.out.range))

\* the read offset is where a record starts or at the end of the store
OnBoundary(store, off) == off = StoreEnd(store) \/ RecordAt(store, off) # 0

\* the records gossip_store_next is to hand out
Wanted(s, k) ==
    /\ ~s.store[k].deleted
    /\ s.store[k].type \in PeerWireTypes
    /\ timestamp_filter(s, s.store[k].timestamp)

\* the wanted records at or after the read offset
Ahead(s) == {k \in 1..Len(s.store) : RecStart(s.store, k) >= s.fd_off /\ Wanted(s, k)}

\* C39: gossip_store_next returns NULL without reading while no filter is
\* set; with a filter it returns the first record at or after the read
\* offset that is not deleted, is a channel_announcement, channel_update or
\* node_announcement and passes the timestamp filter, and leaves the offset
\* just past it (so store order, each at most once a pass); it returns NULL
\* at the end of the store when there is none; setting a filter puts the
\* offset just after the store header.
C39_NextInStoreOrder ==
    [][/\ ld'.out.op = "next" =>
              IF ~ld.gs.set
              THEN ld'.out.ret = 0 /\ ld'.out.reads = 0 /\ ld'.fd_off = ld.fd_off
              ELSE IF Ahead(ld) = {}
              THEN ld'.out.ret = 0 /\ ld'.fd_off = StoreEnd(ld.store)
              ELSE /\ ld'.out.ret \in Ahead(ld)
                   /\ \A k \in Ahead(ld) : ld'.out.ret <= k
                   /\ ld'.fd_off = RecStart(ld.store, ld'.out.ret + 1)
       /\ ld'.out.op = "setup" => ld'.gs.set /\ ld'.fd_off = 1
       /\ OnBoundary(ld'.store, ld'.fd_off)]_vars

\* a call skipped a record and returned the one after it
C39_Witness ==
    /\ ld.out.op = "next"
    /\ ld.out.ret = 2
    /\ ld.out.reads = 2
    /\ ld.gs.timestamp_max # UINT32_MAX

\* the records not deleted that lie before the offset
LiveBefore(store, off) ==
    Cardinality({k \in 1..Len(store) : RecStart(store, k) < off /\ ~store[k].deleted})

\* C40: gossip_store_switch_fd, when the read offset is at the end of the
\* old store, puts the new descriptor at that offset minus offset_shorter;
\* in every case the new descriptor is on a record boundary not past the
\* record that corresponds to the old read offset, and the old descriptor
\* is closed and replaced.
C40_SwitchKeepsPosition ==
    [][ld'.out.op = "switch" =>
           /\ ld.fd_off = StoreEnd(ld.store)
                  => ld'.fd_off = ld.fd_off - ld'.out.shorter
           /\ OnBoundary(ld'.store, ld'.fd_off)
           /\ LiveBefore(ld'.store, ld'.fd_off) <= LiveBefore(ld.store, ld.fd_off)
           /\ ld'.out.closed
           /\ ld'.store = Compacted(ld.store)]_vars

\* the part of C40 that holds: a record boundary not past the old position,
\* the old descriptor closed and replaced
C40_SwitchNeverSkips ==
    [][ld'.out.op = "switch" =>
           /\ OnBoundary(ld'.store, ld'.fd_off)
           /\ LiveBefore(ld'.store, ld'.fd_off) <= LiveBefore(ld.store, ld.fd_off)
           /\ ld'.out.closed
           /\ ld'.store = Compacted(ld.store)]_vars

====
